---- MODULE Spec2Model ----
(***************************************************************************)
(* A model of the gym planner: the Flask request handlers of app.py and    *)
(* the handler modules, over the five MongoDB collections they share.      *)
(*                                                                         *)
(* Text values (form fields, JSON strings, names) are sequences of         *)
(* one-character strings; an absent or empty field is the empty sequence.  *)
(* A date string "YYYY-MM-DD" is the triple <<YYYY, MM, DD>>: the store     *)
(* compares date strings lexicographically, which on zero-padded strings   *)
(* is the lexicographic order of the triples.  An ObjectId is a pair       *)
(* <<kind, n>>, the n-th identifier generated for that kind of document.   *)
(***************************************************************************)
EXTENDS Integers, Sequences, FiniteSets, TLC

VARIABLES users, exercises, workout_days, goals, diet_entries,
          oids, session, last, pending,
          planner_data, planner_file, printed

vars == <<users, exercises, workout_days, goals, diet_entries, oids, session, last,
          pending, planner_data, planner_file, printed>>

\* The command-line weekly planner: its planner, its file and its last line
\* of output.
cli == <<planner_data, planner_file, printed>>

db == <<users, exercises, workout_days, goals, diet_entries>>

----------------------------------------------------------------------------
(* Bounds of the model.                                                    *)

\* ObjectIds generated after start-up, over all kinds but "user".
MaxOid == 6

\* Weeks of the command-line planner.
MaxWeek == 3

----------------------------------------------------------------------------
(* Text.                                                                   *)

Missing == <<>>

UpperCase == <<"A","B","C","D","E","F","G","H","I","J","K","L","M",
               "N","O","P","Q","R","S","T","U","V","W","X","Y","Z">>
LowerCase == <<"a","b","c","d","e","f","g","h","i","j","k","l","m",
               "n","o","p","q","r","s","t","u","v","w","x","y","z">>
Digits == <<"0","1","2","3","4","5","6","7","8","9">>

LowerChar(ch) ==
    IF \E i \in 1..26 : UpperCase[i] = ch
    THEN LowerCase[CHOOSE i \in 1..26 : UpperCase[i] = ch]
    ELSE ch

LowerStr(s) == [i \in 1..Len(s) |-> LowerChar(s[i])]

IsDigit(ch) == \E i \in 1..10 : Digits[i] = ch
DigitVal(ch) == (CHOOSE i \in 1..10 : Digits[i] = ch) - 1

RECURSIVE DigitsVal(_)
DigitsVal(s) == IF s = <<>> THEN 0
                ELSE 10 * DigitsVal(SubSeq(s, 1, Len(s) - 1)) + DigitVal(s[Len(s)])

AllDigits(s) == s # <<>> /\ \A i \in 1..Len(s) : IsDigit(s[i])

\* str(n) of a natural number.
RECURSIVE Str(_)
Str(n) == IF n < 10 THEN <<Digits[n + 1]>> ELSE Str(n \div 10) \o <<Digits[(n % 10) + 1]>>

\* str.capitalize(): the first character upper case, the others lower case.
Capitalize(s) ==
    [i \in 1..Len(s) |->
        IF i > 1 THEN LowerChar(s[i])
        ELSE IF \E k \in 1..26 : LowerCase[k] = s[i]
        THEN UpperCase[CHOOSE k \in 1..26 : LowerCase[k] = s[i]]
        ELSE s[i]]

\* str.replace(old, new) for single characters.
ReplaceChar(s, old, new) == [i \in 1..Len(s) |-> IF s[i] = old THEN new ELSE s[i]]

\* str.strip(): without the blanks at both ends.
RECURSIVE Strip(_)
Strip(s) ==
    IF s = <<>> THEN s
    ELSE IF s[1] = " " THEN Strip(Tail(s))
    ELSE IF s[Len(s)] = " " THEN Strip(SubSeq(s, 1, Len(s) - 1))
    ELSE s

\* str.split(sep): the pieces between the separators, empty ones included.
RECURSIVE Split(_, _)
Split(s, sep) ==
    IF \A i \in 1..Len(s) : s[i] # sep THEN <<s>>
    ELSE LET i == CHOOSE j \in 1..Len(s) : s[j] = sep /\ \A k \in 1..(j - 1) : s[k] # sep
         IN  <<SubSeq(s, 1, i - 1)>> \o Split(SubSeq(s, i + 1, Len(s)), sep)

Unsigned(s) == IF s # <<>> /\ s[1] \in {"-", "+"} THEN Tail(s) ELSE s
Sign(s) == IF s # <<>> /\ s[1] = "-" THEN -1 ELSE 1

\* int(s) of a text: an optional sign and decimal digits, anything else
\* raises ValueError.
IsIntText(s) == AllDigits(Unsigned(s))
IntOf(s) == Sign(s) * DigitsVal(Unsigned(s))

----------------------------------------------------------------------------
(* Calendar: datetime.date as its proleptic Gregorian ordinal.             *)

IsLeap(y) == y % 4 = 0 /\ (y % 100 # 0 \/ y % 400 = 0)

DaysInMonth(y, m) ==
    IF m = 2 THEN (IF IsLeap(y) THEN 29 ELSE 28)
    ELSE IF m \in {4, 6, 9, 11} THEN 30 ELSE 31

RECURSIVE DaysBeforeMonth(_, _)
DaysBeforeMonth(y, m) ==
    IF m = 1 THEN 0 ELSE DaysBeforeMonth(y, m - 1) + DaysInMonth(y, m - 1)

DaysBeforeYear(y) ==
    (y - 1) * 365 + ((y - 1) \div 4) - ((y - 1) \div 100) + ((y - 1) \div 400)

\* date.fromisoformat: ValueError unless the text names a day of the calendar.
IsIsoDate(s) ==
    /\ Len(s) = 3
    /\ s[1] \in 1..9999
    /\ s[2] \in 1..12
    /\ s[3] \in 1..DaysInMonth(s[1], s[2])

FromIso(s) == DaysBeforeYear(s[1]) + DaysBeforeMonth(s[1], s[2]) + s[3]

\* date.fromordinal(n).isoformat()
IsoFormat(ord) ==
    LET n0   == ord - 1
        n400 == n0 \div 146097
        r400 == n0 % 146097
        n100 == r400 \div 36524
        r100 == r400 % 36524
        n4   == r100 \div 1461
        r4   == r100 % 1461
        n1   == r4 \div 365
        n    == r4 % 365
        year == n400 * 400 + 1 + n100 * 100 + n4 * 4 + n1
    IN  IF n1 = 4 \/ n100 = 4 THEN <<year - 1, 12, 31>>
        ELSE LET month == CHOOSE m \in 1..12 :
                              /\ DaysBeforeMonth(year, m) <= n
                              /\ n < DaysBeforeMonth(year, m) + DaysInMonth(year, m)
             IN  <<year, month, n - DaysBeforeMonth(year, month) + 1>>

\* date.weekday(): Monday is 0, Sunday is 6.
Weekday(ord) == (ord + 6) % 7

\* The store's order on date strings ($gte / $lte on strings).
StrLe(a, b) ==
    \/ a[1] < b[1]
    \/ a[1] = b[1] /\ a[2] < b[2]
    \/ a[1] = b[1] /\ a[2] = b[2] /\ a[3] <= b[3]

InRange(d, lo, hi) == StrLe(lo, d) /\ StrLe(d, hi)

----------------------------------------------------------------------------
(* ObjectIds.                                                              *)

Kinds == {"user", "exercise", "day", "task", "set", "goal", "diet"}

\* The k-th ObjectId (k >= 1) generated next for a kind.
NewOid(kind, k) == <<kind, oids[kind] + k>>

\* oids after generating n more ObjectIds of a kind.
Bump(o, kind, n) == [o EXCEPT ![kind] = @ + n]

\* The text of an ObjectId, str(oid), and its parse, ObjectId(text), which
\* raises InvalidId on any other text.
OidStr(id) == <<"oid">> \o id
IsOidStr(s) == Len(s) = 3 /\ s[1] = "oid"
ObjectId(s) == Tail(s)

----------------------------------------------------------------------------
(* Start-up: seed_exercises() on an empty store.                            *)

default_exercises == <<
    [name |-> <<"B","e","n","c","h"," ","P","r","e","s","s">>, muscle_group |-> <<"Chest">>],
    [name |-> <<"S","q","u","a","t">>, muscle_group |-> <<"Legs">>],
    [name |-> <<"D","e","a","d","l","i","f","t">>, muscle_group |-> <<"Back">>],
    [name |-> <<"O","v","e","r","h","e","a","d"," ","P","r","e","s","s">>, muscle_group |-> <<"Shoulders">>],
    [name |-> <<"B","a","r","b","e","l","l"," ","R","o","w">>, muscle_group |-> <<"Back">>],
    [name |-> <<"P","u","l","l"," ","U","p","s">>, muscle_group |-> <<"Back">>],
    [name |-> <<"B","i","c","e","p"," ","C","u","r","l","s">>, muscle_group |-> <<"Arms">>],
    [name |-> <<"T","r","i","c","e","p"," ","D","i","p","s">>, muscle_group |-> <<"Arms">>],
    [name |-> <<"L","e","g"," ","P","r","e","s","s">>, muscle_group |-> <<"Legs">>] >>

seed_exercises ==
    { [_id |-> <<"exercise", i>>,
       name |-> default_exercises[i].name,
       muscle_group |-> default_exercises[i].muscle_group]
      : i \in 1..Len(default_exercises) }

\* ObjectIds generated since start-up, user records apart.
Generated == oids["exercise"] - Len(default_exercises) + oids["day"] + oids["task"]
               + oids["set"] + oids["goal"] + oids["diet"]

\* A request that may generate up to n ObjectIds is taken only within the bound.
Room(n) == Generated + n <= MaxOid

\* A request in progress: where its handler stands between two database
\* calls, and the handler's local variables.  Idle when the browser has
\* none, which is always so when the server handles one request at a time.
\* The command-line weekly planner (weekly_planner.py).  A day's entry is
\* a list of exercises or the text "Rest Day".
DAYS == << <<"M","o","n","d","a","y">>, <<"T","u","e","s","d","a","y">>,
           <<"W","e","d","n","e","s","d","a","y">>, <<"T","h","u","r","s","d","a","y">>,
           <<"F","r","i","d","a","y">>, <<"S","a","t","u","r","d","a","y">>,
           <<"S","u","n","d","a","y">> >>
Sunday == DAYS[7]
RestDay == [t |-> "str", v |-> <<"R","e","s","t"," ","D","a","y">>]

get_default_week ==
    [day \in {DAYS[i] : i \in 1..7} |-> IF day = Sunday THEN RestDay ELSE [t |-> "list", v |-> <<>>]]

\* f"week_{n}"
WeekPrefix == <<"w","e","e","k","_">>
WeekKey(n) == WeekPrefix \o Str(n)

\* load_planner() when there is no planner file.
load_planner == [k \in {WeekKey(1)} |-> get_default_week]

Idle == [pc |-> "idle"]

NoRequest == [op |-> "start", client |-> 0, served |-> FALSE, cat |-> "none", code |-> 0]

Init ==
    /\ users = {}
    /\ exercises = seed_exercises
    /\ workout_days = {}
    /\ goals = {}
    /\ diet_entries = {}
    /\ oids = [k \in Kinds |-> IF k = "exercise" THEN Len(default_exercises) ELSE 0]
    /\ session = [c \in {1, 2} |-> Missing]
    /\ last = NoRequest
    /\ pending = [c \in {1, 2} |-> Idle]
    /\ planner_data = load_planner
    /\ planner_file = [exists |-> FALSE]
    /\ printed = "No existing planner found. Creating a new one."

----------------------------------------------------------------------------
(* Requests and responses.  last is the response to the latest request:    *)
(* the route, the browser and the user the gate loaded, the flash category *)
(* and message (or the JSON status and message) and the HTTP status code;  *)
(* served tells whether the handler body ran.                              *)

Response(op, c, uid, served, cat, msg, code) ==
    [op |-> op, client |-> c, served |-> served, cat |-> cat, code |-> code]

LoggedIn(c) == session[c] # Missing
UserOf(c) == CHOOSE u \in users : u._id = ObjectId(session[c])

\* @login_required
Gate(c, op, Handler) ==
    IF ~LoggedIn(c)
    THEN /\ last' = Response(op, c, Missing, FALSE, "warning",
                             "Please log in to access this page.", 302)
         /\ UNCHANGED <<db, oids, session, pending, cli>>
    ELSE IF ~\E u \in users : u._id = ObjectId(session[c])
    THEN /\ last' = Response(op, c, Missing, FALSE, "none", "redirect logout", 302)
         /\ UNCHANGED <<db, oids, session, pending, cli>>
    ELSE Handler /\ UNCHANGED cli

\* ... around a handler that runs from request to response in one piece.
login_required(c, op, Handler) == Gate(c, op, Handler /\ UNCHANGED pending)

\* The handler's response, once the gate let the request through.
Reply(op, c, cat, msg, code) ==
    last' = Response(op, c, ObjectId(session[c]), TRUE, cat, msg, code)

\* bcrypt.hashpw / bcrypt.checkpw
hashpw(password) == <<"bcrypt">> \o password
checkpw(password, hashed) == hashed = <<"bcrypt">> \o password

signup(c, username, email, password) ==
    /\ IF \E u \in users : u.email = email
       THEN /\ last' = Response("signup", c, Missing, TRUE, "warning",
                                "An account with this email already exists.", 302)
            /\ UNCHANGED <<users, oids>>
       ELSE /\ users' = users \cup {[_id |-> NewOid("user", 1), username |-> username,
                                      email |-> email, password |-> hashpw(password),
                                      role |-> "USER"]}
            /\ oids' = Bump(oids, "user", 1)
            /\ last' = Response("signup", c, Missing, TRUE, "success",
                                "Account created successfully! Please log in.", 302)
    /\ UNCHANGED <<exercises, workout_days, goals, diet_entries, session, pending, cli>>

login(c, email, password) ==
    /\ IF \E u \in users : u.email = email /\ checkpw(password, u.password)
       THEN LET user == CHOOSE u \in users : u.email = email /\ checkpw(password, u.password)
            IN  /\ session' = [session EXCEPT ![c] = OidStr(user._id)]
                /\ last' = Response("login", c, user._id, TRUE,
                                    "success", "Login successful!", 302)
       ELSE /\ last' = Response("login", c, Missing, TRUE, "danger",
                                "Invalid email or password. Please try again.", 200)
            /\ UNCHANGED session
    /\ UNCHANGED <<db, oids, pending, cli>>

\* logout() leaving the session as it is.
logout_keeping_session(c) ==
    /\ last' = Response("logout", c, Missing, TRUE, "info",
                        "You have been logged out.", 302)
    /\ UNCHANGED <<db, oids, session, pending, cli>>

logout(c) ==
    /\ session' = [session EXCEPT ![c] = Missing]
    /\ last' = Response("logout", c, Missing, TRUE, "info",
                        "You have been logged out.", 302)
    /\ UNCHANGED <<db, oids, pending, cli>>

----------------------------------------------------------------------------
(* The workout_days collection.                                            *)

\* The first document of a result in natural (insertion) order.
First(docs) == CHOOSE d \in docs : \A e \in docs : d._id[2] <= e._id[2]

Replace(coll, old, new) == (coll \ {old}) \cup {new}

DaysOf(coll, uid, date_str) == {w \in coll : w.user_id = uid /\ w.date = date_str}

\* The list below numbered with i in the place of i + 1.
NewSetListFromZero(o, num_sets) ==
    [i \in 1..num_sets |->
        [_id |-> <<"set", o["set"] + i>>, set_number |-> i - 1, completed |-> FALSE,
         weight_kg |-> Missing, actual_reps |-> Missing]]

\* [{"_id": ObjectId(), "set_number": i + 1, "completed": False,
\*   "weight_kg": "", "actual_reps": ""} for i in range(num_sets)]
NewSetList(o, num_sets) ==
    [i \in 1..num_sets |->
        [_id |-> <<"set", o["set"] + i>>, set_number |-> i, completed |-> FALSE,
         weight_kg |-> Missing, actual_reps |-> Missing]]

SetsMade(num_sets) == IF num_sets > 0 THEN num_sets ELSE 0

\* find_one_and_update(filter on user and date, {$setOnInsert: a new empty day},
\* upsert=True, return_document=True): the collection, the counters and the
\* returned document's _id.
GetOrCreateDay(coll, o, uid, date_str) ==
    IF DaysOf(coll, uid, date_str) # {}
    THEN [wd |-> coll, oids |-> o, day |-> First(DaysOf(coll, uid, date_str))._id]
    ELSE [wd |-> coll \cup {[_id |-> <<"day", o["day"] + 1>>, user_id |-> uid,
                             date |-> date_str, is_rest_day |-> FALSE, tasks |-> <<>>,
                             title |-> Missing, notes |-> Missing]},
          oids |-> Bump(o, "day", 1),
          day |-> <<"day", o["day"] + 1>>]

\* update_one({'_id': day}, {'$push': {'tasks': new_task}})
PushTask(coll, day, new_task) ==
    IF \E w \in coll : w._id = day
    THEN LET w == CHOOSE w \in coll : w._id = day
         IN  Replace(coll, w, [w EXCEPT !.tasks = Append(@, new_task)])
    ELSE coll

\* The check below without its last field.
AddIncompleteButReps(f) ==
    f.workout_date = Missing \/ f.exercise_id = Missing \/ f.sets = Missing

\* not all([workout_date_str, exercise_id, sets, reps])
AddIncomplete(f) ==
    f.workout_date = Missing \/ f.exercise_id = Missing
        \/ f.sets = Missing \/ f.reps = Missing

\* The body of add_exercise_to_day for a logged-in user: the collection and
\* the counters it leaves, and the notice it flashes.
add_exercise_to_day_result(coll, o, exs, uid, f) ==
    IF AddIncomplete(f)
    THEN [wd |-> coll, oids |-> o, cat |-> "danger", msg |-> "Missing required fields."]
    ELSE IF ~IsOidStr(f.exercise_id)
    THEN [wd |-> coll, oids |-> o, cat |-> "danger", msg |-> "An error occurred"]
    ELSE IF ~\E e \in exs : e._id = ObjectId(f.exercise_id)
    THEN [wd |-> coll, oids |-> o, cat |-> "danger", msg |-> "Selected exercise not found."]
    ELSE LET exercise == CHOOSE e \in exs : e._id = ObjectId(f.exercise_id)
             got      == GetOrCreateDay(coll, o, uid, f.workout_date)
         IN  IF ~IsIntText(f.sets)
             THEN [wd |-> got.wd, oids |-> got.oids, cat |-> "danger",
                   msg |-> "An error occurred"]
             ELSE LET num_sets == IntOf(f.sets)
                      new_task == [_id |-> <<"task", got.oids["task"] + 1>>,
                                   exercise_id |-> ObjectId(f.exercise_id),
                                   exercise_name |-> exercise.name,
                                   target_reps |-> f.reps,
                                   sets |-> NewSetList(got.oids, num_sets),
                                   rest_time |-> f.rest_time,
                                   notes |-> f.notes]
                  IN  [wd |-> PushTask(got.wd, got.day, new_task),
                       oids |-> Bump(Bump(got.oids, "task", 1), "set", SetsMade(num_sets)),
                       cat |-> "success", msg |-> "Exercise added successfully!"]

add_exercise_to_day(c, f) ==
    /\ Room(2 + (IF IsIntText(f.sets) THEN SetsMade(IntOf(f.sets)) ELSE 0))
    /\ login_required(c, "add_exercise",
          LET r == add_exercise_to_day_result(workout_days, oids, exercises,
                                              UserOf(c)._id, f)
          IN  /\ workout_days' = r.wd
              /\ oids' = r.oids
              /\ Reply("add_exercise", c, r.cat, r.msg, 302)
              /\ UNCHANGED <<users, exercises, goals, diet_entries, session>>)

----------------------------------------------------------------------------
(* The JSON endpoints.  A JSON value is tagged: a string, a boolean or     *)
(* null (also what data.get gives for an absent key).                      *)

JNull == [t |-> "null", v |-> Missing, b |-> FALSE]
JStr(text) == [t |-> "str", v |-> text, b |-> FALSE]
JBool(flag) == [t |-> "bool", v |-> Missing, b |-> flag]

\* The day an update_one({'_id': ObjectId(day), 'user_id': user}) matches.
Matched(coll, uid, day_str) ==
    {w \in coll : w._id = ObjectId(day_str) /\ w.user_id = uid}

\* {'$set': {'tasks.$[task]...': ...}} with array_filters [{'task._id': task_id}]:
\* Change(task) is applied to every task of the day with that _id.
SetInTasks(w, task_id, Change(_)) ==
    [w EXCEPT !.tasks = [i \in 1..Len(w.tasks) |->
        IF w.tasks[i]._id = task_id THEN Change(w.tasks[i]) ELSE w.tasks[i]]]

\* ... and, with a second filter {'set._id': set_id}, to every such set of it.
SetInSets(w, task_id, set_id, Change(_)) ==
    LET InTask(t) == [t EXCEPT !.sets = [j \in 1..Len(t.sets) |->
                         IF t.sets[j]._id = set_id THEN Change(t.sets[j]) ELSE t.sets[j]]]
    IN  SetInTasks(w, task_id, InTask)

\* A document field that the update creates when it is absent.
WithField(doc, field, value) ==
    [k \in DOMAIN doc \cup {field} |-> IF k = field THEN value ELSE doc[k]]

BadOid(text) == text # Missing /\ ~IsOidStr(text)

MissingData(coll) ==
    [wd |-> coll, cat |-> "error", msg |-> "Missing required data.", code |-> 400]
Raised(coll) == [wd |-> coll, cat |-> "error", msg |-> "exception", code |-> 500]

toggle_set_completion_result(coll, uid, j) ==
    IF j.workout_day_id = Missing \/ j.task_id = Missing \/ j.set_id = Missing
         \/ j.is_completed.t # "bool"
    THEN MissingData(coll)
    ELSE IF BadOid(j.workout_day_id) \/ BadOid(j.task_id) \/ BadOid(j.set_id)
    THEN Raised(coll)
    ELSE IF Matched(coll, uid, j.workout_day_id) = {}
    THEN [wd |-> coll, cat |-> "error", msg |-> "Set not found or not updated.", code |-> 404]
    ELSE LET w == First(Matched(coll, uid, j.workout_day_id))
             Change(st) == [st EXCEPT !.completed = j.is_completed.b]
             new == SetInSets(w, ObjectId(j.task_id), ObjectId(j.set_id), Change)
         IN  IF new # w
             THEN [wd |-> Replace(coll, w, new), cat |-> "success",
                   msg |-> "Set updated.", code |-> 200]
             ELSE [wd |-> coll, cat |-> "error",
                   msg |-> "Set not found or not updated.", code |-> 404]

toggle_set_completion(c, j) ==
    login_required(c, "toggle_set",
        LET r == toggle_set_completion_result(workout_days, UserOf(c)._id, j)
        IN  /\ workout_days' = r.wd
            /\ Reply("toggle_set", c, r.cat, r.msg, r.code)
            /\ UNCHANGED <<users, exercises, goals, diet_entries, oids, session>>)

RECURSIVE Pull(_, _)
Pull(tasks, task_id) ==
    IF tasks = <<>> THEN <<>>
    ELSE IF Head(tasks)._id = task_id THEN Pull(Tail(tasks), task_id)
    ELSE <<Head(tasks)>> \o Pull(Tail(tasks), task_id)

delete_task_result(coll, uid, j) ==
    IF j.workout_day_id = Missing \/ j.task_id = Missing
    THEN MissingData(coll)
    ELSE IF BadOid(j.workout_day_id) \/ BadOid(j.task_id)
    THEN Raised(coll)
    ELSE IF Matched(coll, uid, j.workout_day_id) = {}
    THEN [wd |-> coll, cat |-> "error", msg |-> "Task not found or not deleted.", code |-> 404]
    ELSE LET w == First(Matched(coll, uid, j.workout_day_id))
             new == [w EXCEPT !.tasks = Pull(@, ObjectId(j.task_id))]
         IN  IF new # w
             THEN [wd |-> Replace(coll, w, new), cat |-> "success",
                   msg |-> "Task deleted.", code |-> 200]
             ELSE [wd |-> coll, cat |-> "error",
                   msg |-> "Task not found or not deleted.", code |-> 404]

delete_task(c, j) ==
    login_required(c, "delete_task",
        LET r == delete_task_result(workout_days, UserOf(c)._id, j)
        IN  /\ workout_days' = r.wd
            /\ Reply("delete_task", c, r.cat, r.msg, r.code)
            /\ UNCHANGED <<users, exercises, goals, diet_entries, oids, session>>)

\* update_set_details with the set filter left out ('sets.$[]'): the fields
\* are written to every set of the task.
update_set_details_all_sets(coll, uid, j) ==
    IF Matched(coll, uid, j.workout_day_id) = {}
    THEN [wd |-> coll, cat |-> "error", msg |-> "Set not found or not updated.", code |-> 404]
    ELSE LET w == First(Matched(coll, uid, j.workout_day_id))
             Change(st) ==
                 [st EXCEPT !.weight_kg = IF j.weight_kg.t = "null" THEN @ ELSE j.weight_kg.v,
                            !.actual_reps = IF j.actual_reps.t = "null" THEN @ ELSE j.actual_reps.v]
             InTask(t) == [t EXCEPT !.sets = [k \in 1..Len(t.sets) |-> Change(t.sets[k])]]
         IN  [wd |-> Replace(coll, w, SetInTasks(w, ObjectId(j.task_id), InTask)),
              cat |-> "success", msg |-> "Set details updated.", code |-> 200]

update_set_details_result(coll, uid, j) ==
    IF j.workout_day_id = Missing \/ j.task_id = Missing \/ j.set_id = Missing
    THEN MissingData(coll)
    ELSE IF j.weight_kg.t = "null" /\ j.actual_reps.t = "null"
    THEN [wd |-> coll, cat |-> "info", msg |-> "No fields to update.", code |-> 200]
    ELSE IF BadOid(j.workout_day_id) \/ BadOid(j.task_id) \/ BadOid(j.set_id)
    THEN Raised(coll)
    ELSE IF Matched(coll, uid, j.workout_day_id) = {}
    THEN [wd |-> coll, cat |-> "error", msg |-> "Set not found or not updated.", code |-> 404]
    ELSE LET w == First(Matched(coll, uid, j.workout_day_id))
             Change(st) ==
                 [st EXCEPT !.weight_kg = IF j.weight_kg.t = "null" THEN @ ELSE j.weight_kg.v,
                            !.actual_reps = IF j.actual_reps.t = "null" THEN @ ELSE j.actual_reps.v]
             new == SetInSets(w, ObjectId(j.task_id), ObjectId(j.set_id), Change)
         IN  \* result.modified_count > 0 or result.matched_count > 0
             [wd |-> Replace(coll, w, new), cat |-> "success",
              msg |-> "Set details updated.", code |-> 200]

update_set_details(c, j) ==
    login_required(c, "update_set_details",
        LET r == update_set_details_result(workout_days, UserOf(c)._id, j)
        IN  /\ workout_days' = r.wd
            /\ Reply("update_set_details", c, r.cat, r.msg, r.code)
            /\ UNCHANGED <<users, exercises, goals, diet_entries, oids, session>>)

toggle_task_completion_result(coll, uid, j) ==
    IF j.workout_day_id = Missing \/ j.task_id = Missing \/ j.is_completed.t # "bool"
    THEN MissingData(coll)
    ELSE IF BadOid(j.workout_day_id) \/ BadOid(j.task_id)
    THEN Raised(coll)
    ELSE IF Matched(coll, uid, j.workout_day_id) = {}
    THEN [wd |-> coll, cat |-> "error", msg |-> "Task not found or not updated.", code |-> 404]
    ELSE LET w == First(Matched(coll, uid, j.workout_day_id))
             Change(t) == WithField(t, "completed", j.is_completed.b)
             new == SetInTasks(w, ObjectId(j.task_id), Change)
         IN  IF new # w
             THEN [wd |-> Replace(coll, w, new), cat |-> "success",
                   msg |-> "Task updated.", code |-> 200]
             ELSE [wd |-> coll, cat |-> "error",
                   msg |-> "Task not found or not updated.", code |-> 404]

toggle_task_completion(c, j) ==
    login_required(c, "toggle_task",
        LET r == toggle_task_completion_result(workout_days, UserOf(c)._id, j)
        IN  /\ workout_days' = r.wd
            /\ Reply("toggle_task", c, r.cat, r.msg, r.code)
            /\ UNCHANGED <<users, exercises, goals, diet_entries, oids, session>>)

----------------------------------------------------------------------------
(* The three targeted updates as the server runs them when requests        *)
(* overlap: the gate loads the user and the handler reads the request;     *)
(* later its single update_one runs, atomically on the one document, and   *)
(* the response is sent.  The response is kept with the request's data.    *)

Targeted == {"toggle_set", "update_set_details", "toggle_task"}

Receive(c, op, j) ==
    Gate(c, op,
        /\ pending[c] = Idle
        /\ pending' = [pending EXCEPT ![c] =
                          [pc |-> "update_one", op |-> op, user |-> UserOf(c)._id, data |-> j]]
        /\ UNCHANGED <<db, oids, session, last>>)

UpdateOne(c) ==
    /\ pending[c].pc = "update_one"
    /\ LET p == pending[c]
           r == CASE p.op = "toggle_set" ->
                       toggle_set_completion_result(workout_days, p.user, p.data)
                  [] p.op = "update_set_details" ->
                       update_set_details_result(workout_days, p.user, p.data)
                  [] p.op = "toggle_task" ->
                       toggle_task_completion_result(workout_days, p.user, p.data)
       IN  /\ workout_days' = r.wd
           /\ last' = Response(p.op, c, p.user, TRUE, r.cat, r.msg, r.code)
                         @@ [data |-> p.data]
    /\ pending' = [pending EXCEPT ![c] = Idle]
    /\ UNCHANGED <<users, exercises, goals, diet_entries, oids, session, cli>>

----------------------------------------------------------------------------
(* The form handlers on workout days.                                      *)

edit_exercise_result(coll, o, exs, uid, f) ==
    IF f.edit_workout_day_id = Missing \/ f.edit_task_id = Missing
         \/ f.edit_exercise_id = Missing \/ f.edit_sets = Missing \/ f.edit_reps = Missing
    THEN [wd |-> coll, oids |-> o, cat |-> "danger",
          msg |-> "Missing required fields for editing."]
    ELSE IF BadOid(f.edit_exercise_id)
    THEN [wd |-> coll, oids |-> o, cat |-> "danger",
          msg |-> "An error occurred while updating the exercise"]
    ELSE IF ~\E e \in exs : e._id = ObjectId(f.edit_exercise_id)
    THEN [wd |-> coll, oids |-> o, cat |-> "danger", msg |-> "Selected exercise not found."]
    ELSE IF ~IsIntText(f.edit_sets)
    THEN [wd |-> coll, oids |-> o, cat |-> "danger",
          msg |-> "Invalid number of sets provided."]
    ELSE IF BadOid(f.edit_workout_day_id) \/ BadOid(f.edit_task_id)
    THEN [wd |-> coll, oids |-> o, cat |-> "danger",
          msg |-> "An error occurred while updating the exercise"]
    ELSE IF Matched(coll, uid, f.edit_workout_day_id) = {}
    THEN [wd |-> coll, oids |-> o, cat |-> "info",
          msg |-> "No changes were made to the exercise."]
    ELSE LET exercise == CHOOSE e \in exs : e._id = ObjectId(f.edit_exercise_id)
             num_sets == IntOf(f.edit_sets)
             w == First(Matched(coll, uid, f.edit_workout_day_id))
             Change(t) == [t EXCEPT !.exercise_id = ObjectId(f.edit_exercise_id),
                                    !.exercise_name = exercise.name,
                                    !.target_reps = f.edit_reps,
                                    !.sets = NewSetList(o, num_sets),
                                    !.rest_time = f.edit_rest_time,
                                    !.notes = f.edit_notes]
             new == SetInTasks(w, ObjectId(f.edit_task_id), Change)
         IN  IF new # w
             THEN [wd |-> Replace(coll, w, new), oids |-> Bump(o, "set", SetsMade(num_sets)),
                   cat |-> "success", msg |-> "Exercise updated successfully!"]
             ELSE [wd |-> coll, oids |-> o, cat |-> "info",
                   msg |-> "No changes were made to the exercise."]

edit_exercise(c, f) ==
    /\ Room(IF IsIntText(f.edit_sets) THEN SetsMade(IntOf(f.edit_sets)) ELSE 0)
    /\ login_required(c, "edit_exercise",
          LET r == edit_exercise_result(workout_days, oids, exercises, UserOf(c)._id, f)
          IN  /\ workout_days' = r.wd
              /\ oids' = r.oids
              /\ Reply("edit_exercise", c, r.cat, r.msg, 302)
              /\ UNCHANGED <<users, exercises, goals, diet_entries, session>>)

\* The store refuses an update whose operators write the same path twice
\* ("Updating the path 'x' would create a conflict at 'x'").
ConflictingUpdate(set_doc, set_on_insert_doc) ==
    DOMAIN set_doc \cap DOMAIN set_on_insert_doc # {}

\* $set of every field of update_data on a document.
RECURSIVE SetFields(_, _, _)
SetFields(doc, update_data, fields) ==
    IF fields = {} THEN doc
    ELSE LET k == CHOOSE k \in fields : TRUE
         IN  SetFields(WithField(doc, k, update_data[k]), update_data, fields \ {k})

edit_workout_day_result(coll, o, uid, f) ==
    IF f.edit_workout_date = Missing
    THEN [wd |-> coll, oids |-> o, cat |-> "danger", msg |-> "Missing date for workout day."]
    ELSE IF ~IsIsoDate(f.edit_workout_date)
    THEN [wd |-> coll, oids |-> o, cat |-> "danger", msg |-> "An error occurred"]
    ELSE LET base == [is_rest_day |-> f.is_rest_day, notes |-> f.day_notes]
             update_data ==
                 IF Weekday(FromIso(f.edit_workout_date)) # 6
                      /\ (~f.is_rest_day \/ f.day_title # Missing)
                 THEN WithField(base, "title", f.day_title)
                 ELSE base
             on_insert == [user_id |-> uid, date |-> f.edit_workout_date,
                           tasks |-> <<>>, notes |-> Missing]
         IN  IF ConflictingUpdate(update_data, on_insert)
             THEN [wd |-> coll, oids |-> o, cat |-> "danger", msg |-> "An error occurred"]
             ELSE IF DaysOf(coll, uid, f.edit_workout_date) # {}
             THEN LET w == First(DaysOf(coll, uid, f.edit_workout_date))
                  IN  [wd |-> Replace(coll, w, SetFields(w, update_data, DOMAIN update_data)),
                       oids |-> o, cat |-> "success",
                       msg |-> "Workout day updated successfully!"]
             ELSE [wd |-> coll \cup
                         {SetFields(WithField(on_insert, "_id", <<"day", o["day"] + 1>>),
                                    update_data, DOMAIN update_data)},
                   oids |-> Bump(o, "day", 1), cat |-> "success",
                   msg |-> "Workout day updated successfully!"]

edit_workout_day(c, f) ==
    /\ Room(1)
    /\ login_required(c, "edit_workout_day",
          LET r == edit_workout_day_result(workout_days, oids, UserOf(c)._id, f)
          IN  /\ workout_days' = r.wd
              /\ oids' = r.oids
              /\ Reply("edit_workout_day", c, r.cat, r.msg, 302)
              /\ UNCHANGED <<users, exercises, goals, diet_entries, session>>)

----------------------------------------------------------------------------
(* Copy operations.                                                        *)

RECURSIVE SetsIn(_)
SetsIn(tasks) == IF tasks = <<>> THEN 0 ELSE Len(Head(tasks).sets) + SetsIn(Tail(tasks))

\* The loop below without its last assignment.
ResetTasksKeepingFlags(tasks, nt, ns) ==
    [i \in 1..Len(tasks) |->
        [tasks[i] EXCEPT
            !._id = <<"task", nt + i>>,
            !.sets = [j \in 1..Len(tasks[i].sets) |->
                        [tasks[i].sets[j] EXCEPT
                            !._id = <<"set", ns + SetsIn(SubSeq(tasks, 1, i - 1)) + j>>]]]]

\* for task in tasks: task['_id'] = ObjectId()
\*     for set_item in task['sets']: set_item['_id'] = ObjectId(); set_item['completed'] = False
\* with nt task identifiers and ns set identifiers generated before.
ResetTasks(tasks, nt, ns) ==
    [i \in 1..Len(tasks) |->
        [tasks[i] EXCEPT
            !._id = <<"task", nt + i>>,
            !.sets = [j \in 1..Len(tasks[i].sets) |->
                        [tasks[i].sets[j] EXCEPT
                            !._id = <<"set", ns + SetsIn(SubSeq(tasks, 1, i - 1)) + j>>,
                            !.completed = FALSE]]]]

\* insert_one(replacement) in the place of the replace-or-insert below.
InsertCopy(coll, o, uid, date_str, replacement) ==
    [wd |-> coll \cup {WithField(replacement, "_id", <<"day", o["day"] + 1>>)},
     oids |-> Bump(o, "day", 1)]

\* find_one_and_replace(filter on user and date, replacement, upsert=True):
\* the replacement takes the place and the _id of the first match, or is
\* inserted under a new _id.
ReplaceOrInsert(coll, o, uid, date_str, replacement) ==
    IF DaysOf(coll, uid, date_str) # {}
    THEN LET old == First(DaysOf(coll, uid, date_str))
         IN  [wd |-> Replace(coll, old, WithField(replacement, "_id", old._id)), oids |-> o]
    ELSE [wd |-> coll \cup {WithField(replacement, "_id", <<"day", o["day"] + 1>>)},
          oids |-> Bump(o, "day", 1)]

copy_day_result(coll, o, uid, f) ==
    IF f.source_workout_id = Missing \/ f.target_date = Missing
    THEN [wd |-> coll, oids |-> o, cat |-> "danger",
          msg |-> "Missing source workout or target date."]
    ELSE IF BadOid(f.source_workout_id)
    THEN [wd |-> coll, oids |-> o, cat |-> "danger",
          msg |-> "An error occurred while copying the day"]
    ELSE IF Matched(coll, uid, f.source_workout_id) = {}
    THEN [wd |-> coll, oids |-> o, cat |-> "info",
          msg |-> "The day you are trying to copy has no exercises."]
    ELSE LET source_workout == First(Matched(coll, uid, f.source_workout_id))
         IN  IF source_workout.tasks = <<>>
             THEN [wd |-> coll, oids |-> o, cat |-> "info",
                   msg |-> "The day you are trying to copy has no exercises."]
             ELSE LET new_workout_data ==
                          [k \in DOMAIN source_workout \ {"_id"} |->
                              IF k = "date" THEN f.target_date
                              ELSE IF k = "tasks"
                              THEN ResetTasks(source_workout.tasks, o["task"], o["set"])
                              ELSE source_workout[k]]
                      o2 == Bump(Bump(o, "task", Len(source_workout.tasks)),
                                 "set", SetsIn(source_workout.tasks))
                      put == ReplaceOrInsert(coll, o2, uid, f.target_date, new_workout_data)
                  IN  \* the success notice is flashed before the redirect is computed
                      \* from date.fromisoformat(target_date_str)
                      IF IsIsoDate(f.target_date)
                      THEN [wd |-> put.wd, oids |-> put.oids, cat |-> "success",
                            msg |-> "Workout successfully copied"]
                      ELSE [wd |-> put.wd, oids |-> put.oids, cat |-> "danger",
                            msg |-> "An error occurred while copying the day"]

\* The ObjectIds copying a day can take: one per task, one per set, one for the day.
CopyCost(w) == Len(w.tasks) + SetsIn(w.tasks) + 1

copy_day(c, f) ==
    /\ \A w \in workout_days : IsOidStr(f.source_workout_id)
           /\ w._id = ObjectId(f.source_workout_id) => Room(CopyCost(w))
    /\ login_required(c, "copy_day",
          LET r == copy_day_result(workout_days, oids, UserOf(c)._id, f)
          IN  /\ workout_days' = r.wd
              /\ oids' = r.oids
              /\ Reply("copy_day", c, r.cat, r.msg, 302)
              /\ UNCHANGED <<users, exercises, goals, diet_entries, session>>)

\* A cursor's documents in natural (insertion) order.
RECURSIVE InOrder(_)
InOrder(docs) ==
    IF docs = {} THEN <<>> ELSE <<First(docs)>> \o InOrder(docs \ {First(docs)})

RECURSIVE TasksOfDays(_)
TasksOfDays(days) ==
    IF days = <<>> THEN <<>> ELSE Head(days).tasks \o TasksOfDays(Tail(days))

\* find({'user_id': user, 'date': {'$gte': lo, '$lte': hi}})
DaysInRange(coll, uid, lo, hi) ==
    {w \in coll : w.user_id = uid /\ InRange(w.date, lo, hi)}

\* Step 4 of copy_last_week: the documents to insert for the fetched ones.
NewWorkouts(last_week_workouts, o) ==
    [i \in 1..Len(last_week_workouts) |->
        LET old_workout == last_week_workouts[i]
            before == TasksOfDays(SubSeq(last_week_workouts, 1, i - 1))
        IN  [k \in DOMAIN old_workout |->
                IF k = "_id" THEN <<"day", o["day"] + i>>
                ELSE IF k = "date" THEN IsoFormat(FromIso(old_workout.date) + 7)
                ELSE IF k = "tasks"
                THEN ResetTasks(old_workout.tasks, o["task"] + Len(before),
                                o["set"] + SetsIn(before))
                ELSE old_workout[k]]]

Range(seq) == {seq[i] : i \in 1..Len(seq)}

ClearWeekSkipped(coll, uid, lo, hi) == coll

\* Step 3 of copy_last_week: delete_many on the user's days of the current week.
ClearWeek(coll, uid, lo, hi) == coll \ DaysInRange(coll, uid, lo, hi)

copy_last_week_result(coll, o, uid, f) ==
    IF f.current_week_start_date = Missing
    THEN [wd |-> coll, oids |-> o, cat |-> "danger",
          msg |-> "Could not determine the current week."]
    ELSE IF ~IsIsoDate(f.current_week_start_date)
    THEN [wd |-> coll, oids |-> o, cat |-> "danger",
          msg |-> "An error occurred while copying the plan"]
    ELSE LET current_week_start == FromIso(f.current_week_start_date)
             previous_week_start == current_week_start - 7
             previous_week_end == previous_week_start + 6
             current_week_end == current_week_start + 6
             last_week_workouts ==
                 InOrder(DaysInRange(coll, uid, IsoFormat(previous_week_start),
                                     IsoFormat(previous_week_end)))
             cleared == ClearWeek(coll, uid, IsoFormat(current_week_start),
                                  IsoFormat(current_week_end))
         IN  IF last_week_workouts = <<>>
             THEN [wd |-> coll, oids |-> o, cat |-> "info",
                   msg |-> "No workouts found in the previous week to copy."]
             ELSE IF \E i \in 1..Len(last_week_workouts) :
                        ~IsIsoDate(last_week_workouts[i].date)
             THEN [wd |-> cleared, oids |-> o, cat |-> "danger",
                   msg |-> "An error occurred while copying the plan"]
             ELSE LET all == TasksOfDays(last_week_workouts)
                  IN  [wd |-> cleared \cup Range(NewWorkouts(last_week_workouts, o)),
                       oids |-> Bump(Bump(Bump(o, "day", Len(last_week_workouts)),
                                          "task", Len(all)), "set", SetsIn(all)),
                       cat |-> "success", msg |-> "Successfully copied last week's plan!"]

copy_last_week(c, f) ==
    /\ LoggedIn(c) /\ IsIsoDate(f.current_week_start_date) =>
          LET found == InOrder(DaysInRange(workout_days, ObjectId(session[c]),
                                   IsoFormat(FromIso(f.current_week_start_date) - 7),
                                   IsoFormat(FromIso(f.current_week_start_date) - 1)))
          IN  Room(Len(found) + Len(TasksOfDays(found)) + SetsIn(TasksOfDays(found)))
    /\ login_required(c, "copy_last_week",
          LET r == copy_last_week_result(workout_days, oids, UserOf(c)._id, f)
          IN  /\ workout_days' = r.wd
              /\ oids' = r.oids
              /\ Reply("copy_last_week", c, r.cat, r.msg, 302)
              /\ UNCHANGED <<users, exercises, goals, diet_entries, session>>)

----------------------------------------------------------------------------
(* The exercise library.                                                   *)

\* The pattern f'^{name}$' with option i, on names made of letters, spaces
\* and parentheses: a parenthesis opens or closes a group, so the pattern is
\* invalid when they do not pair up, and otherwise matches the texts equal
\* to the name without its parentheses, letter case apart.
RECURSIVE Depths(_, _)
Depths(pattern, depth) ==
    IF pattern = <<>> THEN <<depth>>
    ELSE <<depth>> \o Depths(Tail(pattern),
                             IF Head(pattern) = "(" THEN depth + 1
                             ELSE IF Head(pattern) = ")" THEN depth - 1 ELSE depth)

RegexValid(pattern) ==
    LET ds == Depths(pattern, 0)
    IN  ds[Len(ds)] = 0 /\ \A k \in 1..Len(ds) : ds[k] >= 0

Literals(pattern) == SelectSeq(pattern, LAMBDA ch : ch \notin {"(", ")"})

RegexMatches(pattern, text) == LowerStr(Literals(pattern)) = LowerStr(text)

add_custom_exercise_result(exs, o, uid, f) ==
    IF f.exercise_name = Missing \/ f.muscle_group = Missing
    THEN [exs |-> exs, oids |-> o, cat |-> "danger"]
    ELSE IF ~RegexValid(f.exercise_name)
    THEN [exs |-> exs, oids |-> o, cat |-> "danger"]
    ELSE IF \E e \in exs : RegexMatches(f.exercise_name, e.name)
    THEN [exs |-> exs, oids |-> o, cat |-> "warning"]
    ELSE [exs |-> exs \cup {[_id |-> <<"exercise", o["exercise"] + 1>>,
                             name |-> f.exercise_name, muscle_group |-> f.muscle_group,
                             created_by |-> uid]},
          oids |-> Bump(o, "exercise", 1), cat |-> "success"]

add_custom_exercise(c, f) ==
    /\ Room(1)
    /\ login_required(c, "add_custom_exercise",
          LET r == add_custom_exercise_result(exercises, oids, UserOf(c)._id, f)
          IN  /\ exercises' = r.exs
              /\ oids' = r.oids
              /\ Reply("add_custom_exercise", c, r.cat, "", 302)
              /\ UNCHANGED <<users, workout_days, goals, diet_entries, session>>)

edit_exercise_in_library_result(exs, exercise_id, f) ==
    IF f.edit_exercise_name = Missing \/ f.edit_muscle_group = Missing
    THEN [exs |-> exs, cat |-> "danger"]
    ELSE IF ~RegexValid(f.edit_exercise_name) \/ ~IsOidStr(exercise_id)
    THEN [exs |-> exs, cat |-> "danger"]
    ELSE IF \E e \in exs : /\ RegexMatches(f.edit_exercise_name, e.name)
                           /\ e._id # ObjectId(exercise_id)
    THEN [exs |-> exs, cat |-> "warning"]
    ELSE [exs |-> {IF e._id = ObjectId(exercise_id)
                   THEN [e EXCEPT !.name = f.edit_exercise_name,
                                  !.muscle_group = f.edit_muscle_group]
                   ELSE e : e \in exs},
          cat |-> "success"]

edit_exercise_in_library(c, exercise_id, f) ==
    login_required(c, "edit_exercise_in_library",
        LET r == edit_exercise_in_library_result(exercises, exercise_id, f)
        IN  /\ exercises' = r.exs
            /\ Reply("edit_exercise_in_library", c, r.cat, "", 302)
            /\ UNCHANGED <<users, workout_days, goals, diet_entries, oids, session>>)

\* The safety check answering that nothing uses the exercise.
InUseSkipped(coll, exercise) == FALSE

\* find_one({'tasks.exercise_id': exercise}) on the days of every user
InUse(coll, exercise) ==
    \E w \in coll : \E i \in 1..Len(w.tasks) : w.tasks[i].exercise_id = exercise

delete_exercise_from_library_result(exs, coll, gls, exercise_id) ==
    IF ~IsOidStr(exercise_id)
    THEN [exs |-> exs, goals |-> gls, cat |-> "danger"]
    ELSE IF InUse(coll, ObjectId(exercise_id))
    THEN [exs |-> exs, goals |-> gls, cat |-> "danger"]
    ELSE [exs |-> {e \in exs : e._id # ObjectId(exercise_id)},
          goals |-> {g \in gls : g.exercise_id # ObjectId(exercise_id)},
          cat |-> "success"]

delete_exercise_from_library(c, exercise_id) ==
    login_required(c, "delete_exercise_from_library",
        LET r == delete_exercise_from_library_result(exercises, workout_days, goals,
                                                     exercise_id)
        IN  /\ exercises' = r.exs
            /\ goals' = r.goals
            /\ Reply("delete_exercise_from_library", c, r.cat, "", 302)
            /\ UNCHANGED <<users, workout_days, diet_entries, oids, session>>)

----------------------------------------------------------------------------
(* Goals.  A number is held in tenths: float(text) of an optional sign,    *)
(* digits and at most one decimal; any other text raises ValueError.       *)

DotAt(s) == IF \E k \in 1..Len(s) : s[k] = "."
            THEN CHOOSE k \in 1..Len(s) : s[k] = "." ELSE 0

IsFloatText(s) ==
    LET u == Unsigned(s)
        k == DotAt(u)
    IN  IF k = 0 THEN AllDigits(u)
        ELSE /\ Len(u) \in {k, k + 1}
             /\ Len(u) > 1
             /\ \A n \in 1..Len(u) : n # k => IsDigit(u[n])

FloatOf(s) ==
    LET u == Unsigned(s)
        k == DotAt(u)
    IN  IF k = 0 THEN Sign(s) * 10 * DigitsVal(u)
        ELSE Sign(s) * (10 * DigitsVal(SubSeq(u, 1, k - 1))
                        + DigitsVal(SubSeq(u, k + 1, Len(u))))

GoalsOf(gls, uid, exercise) == {g \in gls : g.user_id = uid /\ g.exercise_id = exercise}

\* The update as a plain insert_one.
InsertGoal(gls, o, uid, exercise, weight) ==
    [goals |-> gls \cup {[_id |-> <<"goal", o["goal"] + 1>>, user_id |-> uid,
                          exercise_id |-> exercise, goal_weight_kg |-> weight]},
     oids |-> Bump(o, "goal", 1)]

\* update_one(filter on user and exercise, {'$set': {'goal_weight_kg': w}}, upsert=True)
UpsertGoal(gls, o, uid, exercise, weight) ==
    IF GoalsOf(gls, uid, exercise) # {}
    THEN LET g == First(GoalsOf(gls, uid, exercise))
         IN  [goals |-> Replace(gls, g, [g EXCEPT !.goal_weight_kg = weight]), oids |-> o]
    ELSE [goals |-> gls \cup {[_id |-> <<"goal", o["goal"] + 1>>, user_id |-> uid,
                               exercise_id |-> exercise, goal_weight_kg |-> weight]},
          oids |-> Bump(o, "goal", 1)]

set_exercise_goal_result(gls, o, uid, f) ==
    IF f.exercise_id = Missing \/ f.goal_weight = Missing
    THEN [goals |-> gls, oids |-> o, cat |-> "danger"]
    ELSE IF ~IsOidStr(f.exercise_id) \/ ~IsFloatText(f.goal_weight)
    THEN [goals |-> gls, oids |-> o, cat |-> "danger"]
    ELSE LET put == UpsertGoal(gls, o, uid, ObjectId(f.exercise_id), FloatOf(f.goal_weight))
         IN  [goals |-> put.goals, oids |-> put.oids, cat |-> "success"]

set_exercise_goal(c, f) ==
    /\ Room(1)
    /\ login_required(c, "set_exercise_goal",
          LET r == set_exercise_goal_result(goals, oids, UserOf(c)._id, f)
          IN  /\ goals' = r.goals
              /\ oids' = r.oids
              /\ Reply("set_exercise_goal", c, r.cat, "", 302)
              /\ UNCHANGED <<users, exercises, workout_days, diet_entries, session>>)

\* The characters of the texts in their code-point order, for .sort('name', 1).
CodeOrder == <<" ", "(", ")">> \o Digits \o UpperCase \o LowerCase
CodeOf(ch) == CHOOSE k \in 1..Len(CodeOrder) : CodeOrder[k] = ch

RECURSIVE TextLe(_, _)
TextLe(a, b) ==
    IF a = <<>> THEN TRUE
    ELSE IF b = <<>> THEN FALSE
    ELSE IF Head(a) # Head(b) THEN CodeOf(Head(a)) < CodeOf(Head(b))
    ELSE TextLe(Tail(a), Tail(b))

RECURSIVE SortedByName(_)
SortedByName(docs) ==
    IF docs = {} THEN <<>>
    ELSE LET least == {d \in docs : \A e \in docs : TextLe(d.name, e.name)}
         IN  <<First(least)>> \o SortedByName(docs \ {First(least)})

\* The sets in the order the three nested loops visit them, each with the
\* exercise of its task and the date of its day.
RECURSIVE LoggedSets(_)
LoggedSets(workouts) ==
    IF workouts = <<>> THEN <<>>
    ELSE LET workout == Head(workouts)
             OfTask(i) == [j \in 1..Len(workout.tasks[i].sets) |->
                             [exercise_id |-> OidStr(workout.tasks[i].exercise_id),
                              weight_kg |-> workout.tasks[i].sets[j].weight_kg,
                              date |-> workout.date]]
             OfTasks[i \in 0..Len(workout.tasks)] ==
                 IF i = 0 THEN <<>> ELSE OfTasks[i - 1] \o OfTask(i)
         IN  OfTasks[Len(workout.tasks)] \o LoggedSets(Tail(workouts))

\* The loop keeping, per exercise, a weight above the one kept so far.
NoRecord == [weight |-> 0, date |-> Missing]

RECURSIVE CurrentPrs(_, _)
CurrentPrs(logged, current_prs) ==
    IF logged = <<>> THEN current_prs
    ELSE LET s == Head(logged)
             kept == IF s.exercise_id \in DOMAIN current_prs
                     THEN current_prs[s.exercise_id] ELSE NoRecord
             now == IF IsFloatText(s.weight_kg) /\ FloatOf(s.weight_kg) > kept.weight
                    THEN [weight |-> FloatOf(s.weight_kg), date |-> s.date]
                    ELSE kept
         IN  CurrentPrs(Tail(logged),
                 [e \in DOMAIN current_prs \cup {s.exercise_id} |->
                     IF e = s.exercise_id THEN now ELSE current_prs[e]])

\* A goal weight, or None.
NoGoal == [set |-> FALSE, kg |-> 0]
GoalOf(kg) == [set |-> TRUE, kg |-> kg]

get_goal_setting_context(uid, coll, exs, gls) ==
    LET workouts == InOrder({w \in coll : w.user_id = uid /\ w.tasks # <<>>})
        current_prs == CurrentPrs(LoggedSets(workouts), <<>>)
        mine == {g \in gls : g.user_id = uid}
        user_goals == [e \in {OidStr(g.exercise_id) : g \in mine} |->
                          CHOOSE g \in mine : /\ OidStr(g.exercise_id) = e
                                              /\ \A h \in mine : h.exercise_id = g.exercise_id
                                                    => h._id[2] <= g._id[2]]
        all_exercises == SortedByName(exs)
    IN  [i \in 1..Len(all_exercises) |->
            LET exercise_id_str == OidStr(all_exercises[i]._id)
                pr_info == IF exercise_id_str \in DOMAIN current_prs
                           THEN current_prs[exercise_id_str] ELSE NoRecord
            IN  [exercise |-> all_exercises[i],
                 pr_weight |-> pr_info.weight,
                 pr_date |-> pr_info.date,
                 goal_weight |-> IF exercise_id_str \in DOMAIN user_goals
                                 THEN GoalOf(user_goals[exercise_id_str].goal_weight_kg)
                                 ELSE NoGoal]]

\* GET /goal-setting
goal_setting(c) ==
    login_required(c, "goal_setting",
        /\ last' = Response("goal_setting", c, UserOf(c)._id, TRUE, "none", "", 200)
                      @@ [goal_tracking_list |->
                            get_goal_setting_context(UserOf(c)._id, workout_days,
                                                     exercises, goals)]
        /\ UNCHANGED <<db, oids, session>>)

----------------------------------------------------------------------------
(* The diet plan.                                                          *)

\* A form field that was not sent at all: request.form.get(key, 0) is 0.
NotSent == <<"(not sent)">>

IsCount(text) == text = NotSent \/ IsIntText(text)
CountOf(text) == IF text = NotSent THEN 0 ELSE IntOf(text)

\* add_diet_entry keeping one entry per user, date and food name: nothing is
\* inserted when the user has the food on the date already.
add_diet_entry_once(diet, o, uid, f) ==
    IF ~(IsCount(f.calories) /\ IsCount(f.protein_g) /\ IsCount(f.carbs_g)
           /\ IsCount(f.fat_g))
    THEN [diet |-> diet, oids |-> o, cat |-> "danger"]
    ELSE IF f.food_name = Missing \/ f.date = Missing
    THEN [diet |-> diet, oids |-> o, cat |-> "danger"]
    ELSE IF \E e \in diet : e.user_id = uid /\ e.date = f.date /\ e.food_name = f.food_name
    THEN [diet |-> diet, oids |-> o, cat |-> "success"]
    ELSE [diet |-> diet \cup {[_id |-> <<"diet", o["diet"] + 1>>, user_id |-> uid,
                               date |-> f.date, food_name |-> f.food_name,
                               calories |-> CountOf(f.calories),
                               protein_g |-> CountOf(f.protein_g),
                               carbs_g |-> CountOf(f.carbs_g),
                               fat_g |-> CountOf(f.fat_g)]},
          oids |-> Bump(o, "diet", 1), cat |-> "success"]

add_diet_entry_result(diet, o, uid, f) ==
    IF ~(IsCount(f.calories) /\ IsCount(f.protein_g) /\ IsCount(f.carbs_g)
           /\ IsCount(f.fat_g))
    THEN [diet |-> diet, oids |-> o, cat |-> "danger"]
    ELSE IF f.food_name = Missing \/ f.date = Missing
    THEN [diet |-> diet, oids |-> o, cat |-> "danger"]
    ELSE [diet |-> diet \cup {[_id |-> <<"diet", o["diet"] + 1>>, user_id |-> uid,
                               date |-> f.date, food_name |-> f.food_name,
                               calories |-> CountOf(f.calories),
                               protein_g |-> CountOf(f.protein_g),
                               carbs_g |-> CountOf(f.carbs_g),
                               fat_g |-> CountOf(f.fat_g)]},
          oids |-> Bump(o, "diet", 1), cat |-> "success"]

add_diet_entry(c, f) ==
    /\ Room(1)
    /\ login_required(c, "add_diet_entry",
          LET r == add_diet_entry_result(diet_entries, oids, UserOf(c)._id, f)
          IN  /\ diet_entries' = r.diet
              /\ oids' = r.oids
              /\ Reply("add_diet_entry", c, r.cat, "", 302)
              /\ UNCHANGED <<users, exercises, workout_days, goals, session>>)

\* delete_one({'_id': ObjectId(entry_id), 'user_id': user}); an entry_id that
\* is no ObjectId raises InvalidId, which nothing catches: the answer is 500.
delete_diet_entry(c, entry_id) ==
    login_required(c, "delete_diet_entry",
        LET hit == IF IsOidStr(entry_id)
                   THEN {e \in diet_entries : e._id = ObjectId(entry_id)
                                               /\ e.user_id = UserOf(c)._id}
                   ELSE {}
        IN  /\ diet_entries' = diet_entries \ hit
            /\ IF ~IsOidStr(entry_id)
               THEN Reply("delete_diet_entry", c, "none", "", 500)
               ELSE Reply("delete_diet_entry", c,
                          IF hit # {} THEN "success" ELSE "warning", "", 302)
            /\ UNCHANGED <<users, exercises, workout_days, goals, oids, session>>)

----------------------------------------------------------------------------
(* The progress tracker.  Volumes are in tenths of a kilogram, as weights. *)

MonthAbbr == <<"Jan", "Feb", "Mar", "Apr", "May", "Jun",
               "Jul", "Aug", "Sep", "Oct", "Nov", "Dec">>

\* datetime.strptime(w, '%Y-%m-%d').strftime('%b %d, %Y')
Strftime(w) == <<MonthAbbr[w[2]], w[3], w[1]>>

\* weight = float(s['weight_kg']); reps = int(s['actual_reps']);
\* weight * reps if weight > 0 and reps > 0; a ValueError skips the set.
SetVolume(s) ==
    IF ~IsFloatText(s.weight_kg) \/ ~IsIntText(s.actual_reps) THEN 0
    ELSE IF FloatOf(s.weight_kg) > 0 /\ IntOf(s.actual_reps) > 0
    THEN FloatOf(s.weight_kg) * IntOf(s.actual_reps)
    ELSE 0

RECURSIVE SetsVolume(_)
SetsVolume(sets) ==
    IF sets = <<>> THEN 0 ELSE SetVolume(Head(sets)) + SetsVolume(Tail(sets))

RECURSIVE DayVolume(_)
DayVolume(tasks) ==
    IF tasks = <<>> THEN 0 ELSE SetsVolume(Head(tasks).sets) + DayVolume(Tail(tasks))

\* .sort('date', 1), documents of one date in natural order
RECURSIVE SortedByDate(_)
SortedByDate(docs) ==
    IF docs = {} THEN <<>>
    ELSE LET earliest == {d \in docs : \A e \in docs : StrLe(d.date, e.date)}
         IN  <<First(earliest)>> \o SortedByDate(docs \ {First(earliest)})

\* The loop over the workouts, filling the weekly_volume dictionary; a day
\* whose date does not parse is skipped.
RECURSIVE WeeklyVolume(_, _)
WeeklyVolume(workouts, weekly_volume) ==
    IF workouts = <<>> THEN weekly_volume
    ELSE LET workout == Head(workouts)
         IN  IF ~IsIsoDate(workout.date)
             THEN WeeklyVolume(Tail(workouts), weekly_volume)
             ELSE LET workout_date == FromIso(workout.date)
                      week_label == IsoFormat(workout_date - Weekday(workout_date))
                      so_far == IF week_label \in DOMAIN weekly_volume
                                THEN weekly_volume[week_label] ELSE 0
                  IN  WeeklyVolume(Tail(workouts),
                          [w \in DOMAIN weekly_volume \cup {week_label} |->
                              IF w = week_label THEN so_far + DayVolume(workout.tasks)
                              ELSE weekly_volume[w]])

\* sorted(weekly_volume.keys())
RECURSIVE Sorted(_)
Sorted(labels) ==
    IF labels = {} THEN <<>>
    ELSE LET least == CHOOSE a \in labels : \A b \in labels : StrLe(a, b)
         IN  <<least>> \o Sorted(labels \ {least})

get_progress_data(uid, coll) ==
    LET workouts == SortedByDate({w \in coll : w.user_id = uid /\ w.tasks # <<>>})
        weekly_volume == WeeklyVolume(workouts, <<>>)
        sorted_weeks == Sorted(DOMAIN weekly_volume)
    IN  IF workouts = <<>> THEN [labels |-> <<>>, data |-> <<>>]
        ELSE [labels |-> [i \in 1..Len(sorted_weeks) |-> Strftime(sorted_weeks[i])],
              data |-> [i \in 1..Len(sorted_weeks) |-> weekly_volume[sorted_weeks[i]]]]

\* The largest of 0 and the weights of a task's sets that float() accepts.
RECURSIVE MaxWeightForDay(_, _)
MaxWeightForDay(sets, max_weight_for_day) ==
    IF sets = <<>> THEN max_weight_for_day
    ELSE MaxWeightForDay(Tail(sets),
             IF /\ IsFloatText(Head(sets).weight_kg)
                /\ FloatOf(Head(sets).weight_kg) > max_weight_for_day
             THEN FloatOf(Head(sets).weight_kg) ELSE max_weight_for_day)

\* The tasks in the order the two outer loops visit them, each with the
\* date of its day.
RECURSIVE DatedTasks(_)
DatedTasks(workouts) ==
    IF workouts = <<>> THEN <<>>
    ELSE [i \in 1..Len(Head(workouts).tasks) |->
             [date |-> Head(workouts).date, task |-> Head(workouts).tasks[i]]]
         \o DatedTasks(Tail(workouts))

\* defaultdict(lambda: defaultdict(float)): reading a date creates it as 0.0.
RECURSIVE ExerciseProgression(_, _)
ExerciseProgression(dated, progression) ==
    IF dated = <<>> THEN progression
    ELSE LET exercise_name == Head(dated).task.exercise_name
             day == Head(dated).date
             series == IF exercise_name \in DOMAIN progression
                       THEN progression[exercise_name] ELSE <<>>
             stored == IF day \in DOMAIN series THEN series[day] ELSE 0
             max_weight_for_day == MaxWeightForDay(Head(dated).task.sets, 0)
             value == IF max_weight_for_day > stored THEN max_weight_for_day ELSE stored
         IN  IF exercise_name = Missing
             THEN ExerciseProgression(Tail(dated), progression)
             ELSE ExerciseProgression(Tail(dated),
                      [n \in DOMAIN progression \cup {exercise_name} |->
                          IF n = exercise_name
                          THEN [d \in DOMAIN series \cup {day} |->
                                   IF d = day THEN value ELSE series[d]]
                          ELSE progression[n]])

exercise_progression(uid, coll) ==
    ExerciseProgression(
        DatedTasks(SortedByDate({w \in coll : w.user_id = uid /\ w.tasks # <<>>})), <<>>)

\* GET /progress-tracker: the response carries the charts' data.
progress_tracker(c) ==
    login_required(c, "progress_tracker",
        /\ last' = Response("progress_tracker", c, UserOf(c)._id, TRUE, "none", "", 200)
                      @@ [volume_data |-> get_progress_data(UserOf(c)._id, workout_days),
                          exercise_progression |->
                              exercise_progression(UserOf(c)._id, workout_days)]
        /\ UNCHANGED <<db, oids, session>>)

----------------------------------------------------------------------------
(* The monthly plan.  A date is held as its ISO triple; date arithmetic    *)
(* that leaves date.min .. date.max raises OverflowError.                  *)

\* date.min .. date.max
IsDate(ord) == FromIso(<<1, 1, 1>>) <= ord /\ ord <= FromIso(<<9999, 12, 31>>)

\* {workout['date']: workout for workout in user_workouts}: the last
\* document found for a date is the one kept.
WorkoutsByDate(found) ==
    [d \in {w.date : w \in found} |->
        CHOOSE w \in found : w.date = d /\ \A x \in found : x.date = d => x._id[2] <= w._id[2]]

\* The context, or raised when date(year, month, 1) or a timedelta sum fails.
get_monthly_plan_context(selected_year, selected_month, uid, coll) ==
    IF ~IsIsoDate(<<selected_year, selected_month, 1>>)
    THEN [raised |-> TRUE]
    ELSE LET first_day_of_month == FromIso(<<selected_year, selected_month, 1>>)
             start_of_calendar == first_day_of_month - Weekday(first_day_of_month)
             end_of_calendar == start_of_calendar + 41
         IN  IF ~IsDate(start_of_calendar) \/ ~IsDate(end_of_calendar)
             THEN [raised |-> TRUE]
             ELSE [raised |-> FALSE,
                   calendar_weeks |->
                       [wk \in 1..6 |-> [dy \in 1..7 |->
                           IsoFormat(start_of_calendar + 7 * (wk - 1) + (dy - 1))]],
                   workouts_by_date |->
                       WorkoutsByDate(DaysInRange(coll, uid, IsoFormat(start_of_calendar),
                                                  IsoFormat(end_of_calendar))),
                   selected_date |-> <<selected_year, selected_month, 1>>]

\* GET /monthly-plan?year=..&month=..: nothing catches what the handler raises.
monthly_view(c, year, month) ==
    login_required(c, "monthly_view",
        LET context == get_monthly_plan_context(year, month, UserOf(c)._id, workout_days)
        IN  /\ last' = IF context.raised
                       THEN Response("monthly_view", c, UserOf(c)._id, TRUE, "none", "", 500)
                       ELSE Response("monthly_view", c, UserOf(c)._id, TRUE, "none", "", 200)
                              @@ [year |-> year, month |-> month, context |-> context]
            /\ UNCHANGED <<db, oids, session>>)

----------------------------------------------------------------------------
(* The dashboard: the weekly view of a selected year, month and week of    *)
(* the month.                                                              *)

\* request.args.get(name, default=.., type=int): a parameter that is not
\* sent, or is not an integer, gives the default.
IntArg(arg, default) == IF arg = NotSent \/ ~IsIntText(arg) THEN default ELSE IntOf(arg)

\* The template's context, or raised when a date(..) or a timedelta sum
\* leaves date.min .. date.max (date(10000, 1, 1) is no date).  week_plan
\* has, for each day of the selected week, the workout found last for that
\* day of the week, or None.
dashboard_context(today, year, month, week, uid, coll, exs) ==
    LET selected_year == IntArg(year, today[1])
        selected_month == IntArg(month, today[2])
        first_day_of_month == FromIso(<<today[1], today[2], 1>>)
        start_of_first_week == first_day_of_month - Weekday(first_day_of_month)
        today_week_in_month == ((FromIso(today) - start_of_first_week) \div 7) + 1
        selected_week_in_month == IntArg(week, today_week_in_month)
        WeekPlan(start_of_week, found) ==
            [i \in 0..6 |->
                LET on == {w \in found : FromIso(w.date) = start_of_week + i}
                IN  IF on = {} THEN JNull
                    ELSE CHOOSE w \in on : \A x \in on : x._id[2] <= w._id[2]]
    IN  IF ~IsIsoDate(<<selected_year, selected_month, 1>>)
        THEN [raised |-> TRUE]
        ELSE
        LET first_day_of_selected_month == FromIso(<<selected_year, selected_month, 1>>)
            start_of_first_week_of_month ==
                first_day_of_selected_month - Weekday(first_day_of_selected_month)
            start_of_week == start_of_first_week_of_month + 7 * (selected_week_in_month - 1)
            end_of_week == start_of_week + 6
            mine == {w \in coll : w.user_id = uid}
            start_year ==
                IF mine = {} THEN today[1]
                ELSE (CHOOSE w \in mine : \A x \in mine : StrLe(w.date, x.date)).date[1]
            next_month == IF selected_month = 12 THEN <<selected_year + 1, 1, 1>>
                          ELSE <<selected_year, selected_month + 1, 1>>
        IN  IF \/ ~IsDate(start_of_first_week_of_month)
               \/ ~IsDate(start_of_week) \/ ~IsDate(end_of_week)
               \/ ~IsIsoDate(next_month)
            THEN [raised |-> TRUE]
            ELSE
            LET first_day_of_next_month == FromIso(next_month)
                start_of_last_week_of_month ==
                    first_day_of_next_month - Weekday(first_day_of_next_month)
                      - (IF Weekday(first_day_of_next_month) = 0 THEN 7 ELSE 0)
                num_weeks_in_month ==
                    ((start_of_last_week_of_month - start_of_first_week_of_month) \div 7) + 1
                previous_week_start == start_of_week - 7
                previous_week_end == previous_week_start + 6
            IN  IF ~IsDate(previous_week_start) \/ ~IsDate(previous_week_end)
                THEN [raised |-> TRUE]
                ELSE [raised |-> FALSE,
                      week_plan |->
                          WeekPlan(start_of_week,
                                   DaysInRange(coll, uid, IsoFormat(start_of_week),
                                               IsoFormat(end_of_week))),
                      start_of_week |-> IsoFormat(start_of_week),
                      end_of_week |-> IsoFormat(end_of_week),
                      all_exercises |-> exs,
                      selected_year |-> selected_year,
                      selected_month |-> selected_month,
                      selected_week_in_month |-> selected_week_in_month,
                      year_range |-> start_year..(today[1] + 1),
                      num_weeks_in_month |-> num_weeks_in_month,
                      has_previous_week_workouts |->
                          DaysInRange(coll, uid, IsoFormat(previous_week_start),
                                      IsoFormat(previous_week_end)) # {}]

\* GET /dashboard?year=..&month=..&week=..: nothing catches what the
\* handler raises.
dashboard(c, today, year, month, week) ==
    login_required(c, "dashboard",
        LET context == dashboard_context(today, year, month, week, UserOf(c)._id,
                                         workout_days, exercises)
        IN  /\ last' = IF context.raised
                       THEN Response("dashboard", c, UserOf(c)._id, TRUE, "none", "", 500)
                       ELSE Response("dashboard", c, UserOf(c)._id, TRUE, "none", "", 200)
                              @@ [context |-> context]
            /\ UNCHANGED <<db, oids, session>>)

----------------------------------------------------------------------------
(* The command-line weekly planner: one action per choice of its menu.     *)

\* json.dump to the planner file; an IOError is printed and leaves the file.
save_planner(planner) ==
    \/ /\ planner_file' = [exists |-> TRUE, json |-> planner]
       /\ printed' = "Planner saved successfully."
    \/ /\ planner_file' = planner_file
       /\ printed' = "Error saving planner"

NoRestDay(day) == FALSE

\* if day == "Sunday": the designated rest day.
IsRestDay(day) == day = Sunday

\* [ex.strip() for ex in new_exercises_str.split(',')], or [] for a blank line.
NewExercises(new_exercises_str) ==
    IF Strip(new_exercises_str) # <<>>
    THEN LET pieces == Split(new_exercises_str, ",")
         IN  [t |-> "list", v |-> [i \in 1..Len(pieces) |-> Strip(pieces[i])]]
    ELSE [t |-> "list", v |-> <<>>]

\* Choice 2, with the three lines typed in.
add_edit_workout(week_in, day_in, new_exercises_str) ==
    LET week_key == ReplaceChar(LowerStr(week_in), " ", "_")
        day == Capitalize(day_in)
    IN  /\ IF week_key \notin DOMAIN planner_data
           THEN /\ printed' = "Error: week not found."
                /\ UNCHANGED <<planner_data, planner_file>>
           ELSE IF \A i \in 1..Len(DAYS) : DAYS[i] # day
           THEN /\ printed' = "Invalid day entered."
                /\ UNCHANGED <<planner_data, planner_file>>
           ELSE IF IsRestDay(day)
           THEN /\ printed' = "Sunday is a designated rest day and cannot be edited."
                /\ UNCHANGED <<planner_data, planner_file>>
           ELSE /\ planner_data' = [planner_data EXCEPT
                                       ![week_key][day] = NewExercises(new_exercises_str)]
                /\ save_planner(planner_data')
        /\ UNCHANGED <<db, oids, session, last, pending>>

\* next_week_num of add_new_week.
NextWeekNum(planner) ==
    LET week_keys == {IntOf(Split(k, "_")[2]) :
                         k \in {x \in DOMAIN planner :
                                   /\ Len(x) >= Len(WeekPrefix)
                                   /\ SubSeq(x, 1, Len(WeekPrefix)) = WeekPrefix}}
    IN  IF week_keys # {}
        THEN (CHOOSE n \in week_keys : \A m \in week_keys : m <= n) + 1
        ELSE 1

\* Choice 3.
add_new_week ==
    LET new_week_key == WeekKey(NextWeekNum(planner_data))
    IN  /\ NextWeekNum(planner_data) <= MaxWeek
        /\ planner_data' = [k \in DOMAIN planner_data \cup {new_week_key} |->
                               IF k = new_week_key THEN get_default_week
                               ELSE planner_data[k]]
        /\ save_planner(planner_data')
        /\ UNCHANGED <<db, oids, session, last, pending>>

\* Choice 1: the plan of a week is printed.
view_planner(week_in) ==
    LET week_key == ReplaceChar(LowerStr(week_in), " ", "_")
    IN  /\ printed' = IF DOMAIN planner_data = {}
                      THEN "Planner is empty. Add a new week to get started."
                      ELSE IF week_key \notin DOMAIN planner_data
                      THEN "Error: week not found in the planner."
                      ELSE "Workout Plan"
        /\ UNCHANGED <<planner_data, planner_file, db, oids, session, last, pending>>

----------------------------------------------------------------------------
(* The handlers with several database calls, as the server runs them when  *)
(* requests overlap: one action per database call, with what the handler   *)
(* computes up to its next call or its response.  pending[c] holds the     *)
(* handler's position and its local variables.                             *)

Step(c, op, pc) == pending[c].pc = pc /\ pending[c].op = op
Goto(c, record) == pending' = [pending EXCEPT ![c] = record]
Done(c) == pending' = [pending EXCEPT ![c] = Idle]
Answer(c, cat, msg) ==
    last' = Response(pending[c].op, c, pending[c].user, TRUE, cat, msg, 302)

\* add_exercise_to_day up to exercises_collection.find_one.
add_exercise_find(c, f) ==
    /\ Room(2 + (IF IsIntText(f.sets) THEN SetsMade(IntOf(f.sets)) ELSE 0))
    /\ Gate(c, "add_exercise",
          /\ pending[c] = Idle
          /\ IF AddIncomplete(f) \/ ~IsOidStr(f.exercise_id)
                 \/ ~\E e \in exercises : e._id = ObjectId(f.exercise_id)
             THEN LET r == add_exercise_to_day_result(workout_days, oids, exercises,
                                                      UserOf(c)._id, f)
                  IN  Reply("add_exercise", c, r.cat, r.msg, 302) /\ UNCHANGED pending
             ELSE /\ Goto(c, [pc |-> "upsert", op |-> "add_exercise",
                              user |-> UserOf(c)._id, form |-> f,
                              exercise |-> CHOOSE e \in exercises :
                                              e._id = ObjectId(f.exercise_id)])
                  /\ UNCHANGED last
          /\ UNCHANGED <<db, oids, session>>)

\* find_one_and_update(..., upsert=True), then int(sets).
add_exercise_upsert(c) ==
    /\ Step(c, "add_exercise", "upsert")
    /\ LET p == pending[c]
           got == GetOrCreateDay(workout_days, oids, p.user, p.form.workout_date)
       IN  /\ workout_days' = got.wd
           /\ oids' = got.oids
           /\ IF ~IsIntText(p.form.sets)
              THEN Answer(c, "danger", "An error occurred") /\ Done(c)
              ELSE /\ Goto(c, [p EXCEPT !.pc = "push"] @@ [workout_day |-> got.day])
                   /\ UNCHANGED last
    /\ UNCHANGED <<users, exercises, goals, diet_entries, session, cli>>

\* The new task, update_one({'_id': workout_day['_id']}, {'$push': ...}) and
\* the success notice.
add_exercise_push(c) ==
    /\ Step(c, "add_exercise", "push")
    /\ LET p == pending[c]
           num_sets == IntOf(p.form.sets)
           new_task == [_id |-> <<"task", oids["task"] + 1>>,
                        exercise_id |-> ObjectId(p.form.exercise_id),
                        exercise_name |-> p.exercise.name,
                        target_reps |-> p.form.reps,
                        sets |-> NewSetList(oids, num_sets),
                        rest_time |-> p.form.rest_time,
                        notes |-> p.form.notes]
       IN  /\ workout_days' = PushTask(workout_days, p.workout_day, new_task)
           /\ oids' = Bump(Bump(oids, "task", 1), "set", SetsMade(num_sets))
    /\ Answer(c, "success", "Exercise added successfully!")
    /\ Done(c)
    /\ UNCHANGED <<users, exercises, goals, diet_entries, session, cli>>

\* copy_last_week up to the find on the previous week.
copy_last_week_find(c, f) ==
    /\ LoggedIn(c) /\ IsIsoDate(f.current_week_start_date) =>
          LET found == InOrder(DaysInRange(workout_days, ObjectId(session[c]),
                                   IsoFormat(FromIso(f.current_week_start_date) - 7),
                                   IsoFormat(FromIso(f.current_week_start_date) - 1)))
          IN  Room(Len(found) + Len(TasksOfDays(found)) + SetsIn(TasksOfDays(found)))
    /\ Gate(c, "copy_last_week",
          /\ pending[c] = Idle
          /\ LET r == copy_last_week_result(workout_days, oids, UserOf(c)._id, f)
                 start == FromIso(f.current_week_start_date)
             IN  IF f.current_week_start_date = Missing
                      \/ ~IsIsoDate(f.current_week_start_date) \/ r.cat = "info"
                 THEN Reply("copy_last_week", c, r.cat, r.msg, 302) /\ UNCHANGED pending
                 ELSE /\ Goto(c, [pc |-> "delete_many", op |-> "copy_last_week",
                                  user |-> UserOf(c)._id,
                                  current_week_start |-> start,
                                  last_week_workouts |->
                                      InOrder(DaysInRange(workout_days, UserOf(c)._id,
                                                  IsoFormat(start - 7), IsoFormat(start - 1)))])
                      /\ UNCHANGED last
          /\ UNCHANGED <<db, oids, session>>)

\* delete_many on the current week, then the loop that prepares the copies.
copy_last_week_delete(c) ==
    /\ Step(c, "copy_last_week", "delete_many")
    /\ LET p == pending[c]
       IN  /\ workout_days' = ClearWeek(workout_days, p.user,
                                         IsoFormat(p.current_week_start),
                                         IsoFormat(p.current_week_start + 6))
           /\ IF \E i \in 1..Len(p.last_week_workouts) :
                     ~IsIsoDate(p.last_week_workouts[i].date)
              THEN Answer(c, "danger", "An error occurred while copying the plan")
                   /\ Done(c)
              ELSE Goto(c, [p EXCEPT !.pc = "insert_many"]) /\ UNCHANGED last
    /\ UNCHANGED <<users, exercises, goals, diet_entries, oids, session, cli>>

\* insert_many(new_workouts) and the success notice.
copy_last_week_insert(c) ==
    /\ Step(c, "copy_last_week", "insert_many")
    /\ LET p == pending[c]
           all == TasksOfDays(p.last_week_workouts)
       IN  /\ workout_days' = workout_days \cup Range(NewWorkouts(p.last_week_workouts, oids))
           /\ oids' = Bump(Bump(Bump(oids, "day", Len(p.last_week_workouts)),
                                 "task", Len(all)), "set", SetsIn(all))
    /\ Answer(c, "success", "Successfully copied last week's plan!")
    /\ Done(c)
    /\ UNCHANGED <<users, exercises, goals, diet_entries, session, cli>>

\* copy_day up to the find_one of the source day.
copy_day_find(c, f) ==
    /\ \A w \in workout_days : IsOidStr(f.source_workout_id)
           /\ w._id = ObjectId(f.source_workout_id) => Room(CopyCost(w))
    /\ Gate(c, "copy_day",
          /\ pending[c] = Idle
          /\ LET r == copy_day_result(workout_days, oids, UserOf(c)._id, f)
                 found == Matched(workout_days, UserOf(c)._id, f.source_workout_id)
             IN  IF f.source_workout_id = Missing \/ f.target_date = Missing
                      \/ BadOid(f.source_workout_id) \/ r.cat = "info"
                 THEN Reply("copy_day", c, r.cat, r.msg, 302) /\ UNCHANGED pending
                 ELSE /\ Goto(c, [pc |-> "replace", op |-> "copy_day",
                                  user |-> UserOf(c)._id, form |-> f,
                                  source_workout |-> First(found)])
                      /\ UNCHANGED last
          /\ UNCHANGED <<db, oids, session>>)

\* The copy of the fetched day, find_one_and_replace(..., upsert=True) and
\* the notice.
copy_day_replace(c) ==
    /\ Step(c, "copy_day", "replace")
    /\ LET p == pending[c]
           source_workout == p.source_workout
           new_workout_data ==
               [k \in DOMAIN source_workout \ {"_id"} |->
                   IF k = "date" THEN p.form.target_date
                   ELSE IF k = "tasks"
                   THEN ResetTasks(source_workout.tasks, oids["task"], oids["set"])
                   ELSE source_workout[k]]
           o2 == Bump(Bump(oids, "task", Len(source_workout.tasks)),
                      "set", SetsIn(source_workout.tasks))
           put == ReplaceOrInsert(workout_days, o2, p.user, p.form.target_date,
                                  new_workout_data)
       IN  /\ workout_days' = put.wd
           /\ oids' = put.oids
           /\ IF IsIsoDate(p.form.target_date)
              THEN Answer(c, "success", "Workout successfully copied")
              ELSE Answer(c, "danger", "An error occurred while copying the day")
    /\ Done(c)
    /\ UNCHANGED <<users, exercises, goals, diet_entries, session, cli>>

\* edit_exercise up to exercises_collection.find_one and int(sets_str).
edit_exercise_find(c, f) ==
    /\ Room(IF IsIntText(f.edit_sets) THEN SetsMade(IntOf(f.edit_sets)) ELSE 0)
    /\ Gate(c, "edit_exercise",
          /\ pending[c] = Idle
          /\ LET r == edit_exercise_result(workout_days, oids, exercises, UserOf(c)._id, f)
             IN  IF r.cat = "danger"
                 THEN Reply("edit_exercise", c, r.cat, r.msg, 302) /\ UNCHANGED pending
                 ELSE /\ Goto(c, [pc |-> "update_one", op |-> "edit_exercise",
                                  user |-> UserOf(c)._id, form |-> f,
                                  exercise |-> CHOOSE e \in exercises :
                                                  e._id = ObjectId(f.edit_exercise_id)])
                      /\ UNCHANGED last
          /\ UNCHANGED <<db, oids, session>>)

\* update_one on the task, with the exercise fetched before.
edit_exercise_update(c) ==
    /\ Step(c, "edit_exercise", "update_one")
    /\ LET p == pending[c]
           r == edit_exercise_result(workout_days, oids, {p.exercise}, p.user, p.form)
       IN  /\ workout_days' = r.wd
           /\ oids' = r.oids
           /\ Answer(c, r.cat, r.msg)
    /\ Done(c)
    /\ UNCHANGED <<users, exercises, goals, diet_entries, session, cli>>

\* delete_exercise_from_library up to the safety check.
delete_exercise_check(c, exercise_id) ==
    Gate(c, "delete_exercise_from_library",
        /\ pending[c] = Idle
        /\ IF ~IsOidStr(exercise_id) \/ InUse(workout_days, ObjectId(exercise_id))
           THEN Reply("delete_exercise_from_library", c, "danger", "", 302)
                /\ UNCHANGED pending
           ELSE /\ Goto(c, [pc |-> "delete_one", op |-> "delete_exercise_from_library",
                            user |-> UserOf(c)._id,
                            obj_exercise_id |-> ObjectId(exercise_id)])
                /\ UNCHANGED last
        /\ UNCHANGED <<db, oids, session>>)

\* exercises delete_one, goals delete_many and the success notice.
delete_exercise_delete(c) ==
    /\ Step(c, "delete_exercise_from_library", "delete_one")
    /\ exercises' = {e \in exercises : e._id # pending[c].obj_exercise_id}
    /\ goals' = {g \in goals : g.exercise_id # pending[c].obj_exercise_id}
    /\ Answer(c, "success", "")
    /\ Done(c)
    /\ UNCHANGED <<users, workout_days, diet_entries, oids, session, cli>>

----------------------------------------------------------------------------
(* Inputs: what the browser submits.                                       *)

Alice == <<"a">>
Bob == <<"b">>
Password == <<"p","w">>

\* Monday 2024-02-26 and Sunday 2024-03-03 of one week, Monday 2024-03-04 of
\* the next, and 2024-02-30, which sorts between them and is no date.
Mon1 == <<2024, 2, 26>>
Sun1 == <<2024, 3, 3>>
Mon2 == <<2024, 3, 4>>
NoDay == <<2024, 2, 30>>

Squat == OidStr(<<"exercise", 2>>)
Deadlift == OidStr(<<"exercise", 3>>)
Unknown == OidStr(<<"exercise", 0>>)

AddForm(d, e, n, r) ==
    [workout_date |-> d, exercise_id |-> e, sets |-> n, reps |-> r,
     rest_time |-> Missing, notes |-> Missing]

\* What the page offers to click: the days, tasks and sets in the store, by
\* their identifiers.
DayIds == {OidStr(w._id) : w \in workout_days}

TaskRefs ==
    UNION {{[workout_day_id |-> OidStr(w._id), task_id |-> OidStr(w.tasks[i]._id)]
            : i \in 1..Len(w.tasks)} : w \in workout_days}

SetRefs ==
    UNION {UNION {{[workout_day_id |-> OidStr(w._id), task_id |-> OidStr(w.tasks[i]._id),
                    set_id |-> OidStr(w.tasks[i].sets[j]._id)]
                   : j \in 1..Len(w.tasks[i].sets)} : i \in 1..Len(w.tasks)}
           : w \in workout_days}

EditForm(r, e, n, reps) ==
    [edit_workout_day_id |-> r.workout_day_id, edit_task_id |-> r.task_id,
     edit_exercise_id |-> e, edit_sets |-> n, edit_reps |-> reps,
     edit_rest_time |-> Missing, edit_notes |-> Missing]

DayForm(d, t, b) ==
    [edit_workout_date |-> d, day_title |-> t, day_notes |-> Missing, is_rest_day |-> b]

----------------------------------------------------------------------------
(* The planner: two browsers, one per account.  The first sends every      *)
(* request on workout days; the second only adds exercises to its own.     *)

Browsers == <<Alice, Bob>>

DayNext ==
    \/ \E c \in 1..2 : signup(c, Browsers[c], Browsers[c], Password)
    \/ \E c \in 1..2 : login(c, Browsers[c], Password)
    \/ \E d \in {Mon1, Mon2} : \E n \in {<<"1">>, <<"x">>} :
          add_exercise_to_day(1, AddForm(d, Squat, n, <<"8">>))
    \/ add_exercise_to_day(2, AddForm(Mon2, Squat, <<"1">>, <<"8">>))
    \/ \E d \in {Mon1, Mon2} : edit_workout_day(1, DayForm(d, <<"L","e","g","s">>, FALSE))
    \/ \E r \in SetRefs : toggle_set_completion(1, r @@ [is_completed |-> JBool(TRUE)])
    \/ \E r \in TaskRefs : toggle_task_completion(1, r @@ [is_completed |-> JBool(TRUE)])
    \/ \E r \in TaskRefs : delete_task(1, r)
    \/ \E r \in SetRefs :
          update_set_details(1, r @@ [weight_kg |-> JStr(<<"5","0">>), actual_reps |-> JNull])
    \/ \E r \in TaskRefs : edit_exercise(1, EditForm(r, Deadlift, <<"1">>, <<"5">>))
    \/ \E s \in DayIds : \E d \in {Mon1, Mon2} :
          copy_day(1, [source_workout_id |-> s, target_date |-> d])
    \/ \E d \in {Mon1, Mon2} : copy_last_week(1, [current_week_start_date |-> d])

DaySpec == Init /\ [][DayNext]_vars

(* C1: the workout-days collection holds at most one WorkoutDay for each   *)
(* (user, date) pair, after any sequence of completed requests.            *)
C1_OneDayPerUserAndDate ==
    \A w1 \in workout_days : \A w2 \in workout_days :
        (w1.user_id = w2.user_id /\ w1.date = w2.date) => w1 = w2

\* copy-last-week has put a copy of last week's day in the place of a day
\* it deleted, beside another user's day on the same date.
C1_Witness ==
    /\ last.op = "copy_last_week" /\ last.cat = "success"
    /\ \E w1 \in workout_days : \E w2 \in workout_days :
          /\ w1.user_id = w2.user_id /\ w1.date = Mon1 /\ w2.date = Mon2
          /\ w2._id[2] > Cardinality(workout_days)
    /\ \E w \in workout_days : w.user_id # ObjectId(session[1]) /\ w.date = Mon2

\* The identifiers of the tasks and sets of a day.
TaskOids(w) == {w.tasks[i]._id : i \in 1..Len(w.tasks)}
SetOids(w) == UNION {{w.tasks[i].sets[j]._id : j \in 1..Len(w.tasks[i].sets)}
                     : i \in 1..Len(w.tasks)}

\* Every completed flag a day carries, on its tasks and on its sets, is false.
NothingCompleted(w) ==
    \A i \in 1..Len(w.tasks) :
        /\ "completed" \in DOMAIN w.tasks[i] => ~w.tasks[i].completed
        /\ \A j \in 1..Len(w.tasks[i].sets) : ~w.tasks[i].sets[j].completed

CopyDayForms ==
    {[source_workout_id |-> s, target_date |-> d] : s \in DayIds, d \in {Mon1, Mon2}}

(* C4: after a successful copy-day the day at the target date has task and *)
(* set identifiers disjoint from those of the source day, and every        *)
(* completed flag it carries, on its tasks and on its sets, is false.      *)
C4_CopyDayResetsEverything ==
    [][\A f \in CopyDayForms :
         (copy_day(1, f) /\ last'.cat = "success") =>
            \A src \in Matched(workout_days, ObjectId(session[1]), f.source_workout_id) :
            \A new \in DaysOf(workout_days', ObjectId(session[1]), f.target_date) :
                /\ TaskOids(new) \cap TaskOids(src) = {}
                /\ SetOids(new) \cap SetOids(src) = {}
                /\ NothingCompleted(new)]_vars

(* C8: an add-exercise request that ends with an error notice leaves the   *)
(* workout-days collection exactly as it was.                              *)
C8_FailedAddChangesNothing ==
    [][\A c \in 1..2 : \A d \in {Mon1, Mon2} : \A n \in {<<"1">>, <<"x">>} :
         (add_exercise_to_day(c, AddForm(d, Squat, n, <<"8">>)) /\ last'.cat # "success")
            => workout_days' = workout_days]_vars

\* A day without what a copy renews: its own identifier, the identifiers of
\* its tasks and sets, and the completed flags of its sets.
Content(w) ==
    [k \in DOMAIN w \ {"_id"} |->
        IF k # "tasks" THEN w[k]
        ELSE [i \in 1..Len(w.tasks) |->
                [f \in DOMAIN w.tasks[i] \ {"_id"} |->
                    IF f # "sets" THEN w.tasks[i][f]
                    ELSE [j \in 1..Len(w.tasks[i].sets) |->
                            [g \in DOMAIN w.tasks[i].sets[j] \ {"_id", "completed"} |->
                                w.tasks[i].sets[j][g]]]]]]

\* The content of a day moved forward by seven days.
MovedAWeek(w) == [Content(w) EXCEPT !.date = IsoFormat(FromIso(w.date) + 7)]

\* The user's days dated from a week start W to W+6, dates compared as the
\* ISO texts they are stored as.
WeekOf(coll, uid, W) ==
    {w \in coll : /\ w.user_id = uid
                  /\ StrLe(W, w.date) /\ StrLe(w.date, IsoFormat(FromIso(W) + 6))}

LastWeek(W) == IsoFormat(FromIso(W) - 7)

(* C5: after a successful copy-last-week for week start W the user's days  *)
(* of [W, W+6] are exactly the user's days of [W-7, W-1] moved forward by  *)
(* seven days, with task and set identifiers that no day had before and    *)
(* every set's completed flag false; every day that was in [W, W+6] is     *)
(* gone; days outside [W, W+6] and days of other users are unchanged; and  *)
(* when the user has no day in [W-7, W-1] nothing is deleted or inserted.  *)
C5_CopyLastWeek ==
    [][\A W \in {Mon1, Mon2} :
         copy_last_week(1, [current_week_start_date |-> W]) /\ LoggedIn(1) =>
            LET uid == ObjectId(session[1])
                before == WeekOf(workout_days, uid, LastWeek(W))
                target == WeekOf(workout_days, uid, W)
                after == WeekOf(workout_days', uid, W)
            IN  /\ last'.cat = "success" =>
                      /\ {Content(w) : w \in after} = {MovedAWeek(w) : w \in before}
                      /\ Cardinality(after) = Cardinality(before)
                      /\ \A w \in after :
                            /\ \A old \in workout_days :
                                  /\ TaskOids(w) \cap TaskOids(old) = {}
                                  /\ SetOids(w) \cap SetOids(old) = {}
                            /\ \A i \in 1..Len(w.tasks) : \A j \in 1..Len(w.tasks[i].sets) :
                                  ~w.tasks[i].sets[j].completed
                      /\ \A w \in target : \A new \in workout_days' : new._id # w._id
                      /\ workout_days' \ after = workout_days \ target
                /\ before = {} => workout_days' = workout_days]_vars

\* copy-last-week has put in the current week a copy of a day of last week
\* that has a completed set: the copy has other identifiers and an open set.
C5_Witness ==
    /\ last.op = "copy_last_week" /\ last.cat = "success"
    /\ \E w1 \in workout_days : \E w2 \in workout_days :
          /\ w1.user_id = ObjectId(session[1]) /\ w2.user_id = w1.user_id
          /\ w1.date = Mon1 /\ w2.date = Mon2
          /\ w2._id[2] > w1._id[2]
          /\ w1.tasks # <<>> /\ Len(w2.tasks) = Len(w1.tasks)
          /\ \E i \in 1..Len(w1.tasks) :
                /\ w1.tasks[i].sets # <<>> /\ w1.tasks[i].sets[1].completed
                /\ w2.tasks[i]._id[2] > w1.tasks[i]._id[2]
                /\ ~w2.tasks[i].sets[1].completed

----------------------------------------------------------------------------
(* The library and the goals: the first browser edits the catalog, both    *)
(* set goals, and the second plans an exercise of the catalog.             *)

Row == <<"R","o","w">>
LowRow == <<"r","o","w">>
RowT == <<"R","o","w"," ","(","T",")">>
RowOpen == <<"R","o","w"," ","(">>
Names == {Row, LowRow, RowT, RowOpen, Missing}

Back == <<"Back">>
Custom == OidStr(<<"exercise", Len(default_exercises) + 1>>)

Sixty == <<"6","0">>
SeventyTwoAndHalf == <<"7","2",".","5">>
GoalForm(e, g) == [exercise_id |-> e, goal_weight |-> g]

\* The catalog pages are used until MaxCustom exercises have been added.
MaxCustom == 2
Added == oids["exercise"] - Len(default_exercises)

LibraryNext ==
    \/ \E c \in 1..2 : signup(c, Browsers[c], Browsers[c], Password)
    \/ \E c \in 1..2 : login(c, Browsers[c], Password)
    \/ \E n \in Names :
          /\ Added < MaxCustom
          /\ add_custom_exercise(1, [exercise_name |-> n, muscle_group |-> Back])
    \/ \E n \in {LowRow, RowT} :
          edit_exercise_in_library(1, Custom, [edit_exercise_name |-> n,
                                              edit_muscle_group |-> Back])
    \/ \E id \in {Squat, Custom} : delete_exercise_from_library(1, id)
    \/ add_exercise_to_day(2, AddForm(Mon1, Squat, <<"1">>, <<"8">>))
    \/ set_exercise_goal(1, GoalForm(Squat, Sixty))

LibrarySpec == Init /\ [][LibraryNext]_vars

(* The goals page: both browsers set goals, and the first also deletes an  *)
(* exercise, which removes the goals set for it.                           *)

GoalNext ==
    \/ \E c \in 1..2 : signup(c, Browsers[c], Browsers[c], Password)
    \/ \E c \in 1..2 : login(c, Browsers[c], Password)
    \/ \E e \in {Squat, Deadlift} : \E g \in {Sixty, SeventyTwoAndHalf, <<"x">>, Missing} :
          set_exercise_goal(1, GoalForm(e, g))
    \/ \E g \in {Sixty, SeventyTwoAndHalf} : set_exercise_goal(2, GoalForm(Squat, g))
    \/ delete_exercise_from_library(1, Squat)

GoalSpec == Init /\ [][GoalNext]_vars

\* The weight, in tenths of a kilogram, that each goal form asks for.
Asked == {<<Sixty, 600>>, <<SeventyTwoAndHalf, 725>>}

(* C2: a successful set-goal request of user U for exercise E leaves       *)
(* exactly one goal record for (U, E), holding the weight just asked for,  *)
(* and a failed one leaves none changed; the goal records of every other   *)
(* (user, exercise) pair are unchanged either way.                         *)
C2_OneGoalWithLatestWeight ==
    [][\A c \in 1..2 : \A e \in {Squat, Deadlift} : \A a \in Asked :
         set_exercise_goal(c, GoalForm(e, a[1])) /\ LoggedIn(c) =>
            LET mine(g) == g.user_id = ObjectId(session[c]) /\ g.exercise_id = ObjectId(e)
            IN  /\ last'.cat = "success"
                /\ Cardinality({g \in goals' : mine(g)}) = 1
                /\ \A g \in goals' : mine(g) => g.goal_weight_kg = a[2]
                /\ {g \in goals' : ~mine(g)} = {g \in goals : ~mine(g)}]_vars

\* The first goal record ever made holds 72.5 kg after the same user has a
\* second record for another exercise and another user a third.
C2_Witness ==
    /\ last.op = "set_exercise_goal" /\ last.cat = "success"
    /\ Cardinality(goals) = 3
    /\ \E g \in goals : \E h \in goals : \E k \in goals :
          /\ g._id = <<"goal", 1>> /\ g.goal_weight_kg = 725
          /\ h.user_id = g.user_id /\ h.exercise_id # g.exercise_id
          /\ h.goal_weight_kg = 600
          /\ k.user_id # g.user_id /\ k.exercise_id = g.exercise_id

(* C3: a delete-exercise request for an exercise that a task of some       *)
(* workout day, of any user, refers to ends with an error notice and       *)
(* leaves the exercise catalog and the goals collection unchanged.         *)
C3_ReferencedExerciseStays ==
    [][\A id \in {Squat, Custom} :
         (/\ delete_exercise_from_library(1, id)
          /\ LoggedIn(1)
          /\ \E w \in workout_days : \E i \in 1..Len(w.tasks) :
                w.tasks[i].exercise_id = ObjectId(id))
            => /\ last'.cat = "danger"
               /\ exercises' = exercises
               /\ goals' = goals]_vars

\* The delete request was refused while another user's day refers to the
\* exercise and the requester has a goal for it.
C3_Witness ==
    /\ last.op = "delete_exercise_from_library" /\ last.cat = "danger"
    /\ \E w \in workout_days :
          /\ w.user_id # ObjectId(session[1])
          /\ \E i \in 1..Len(w.tasks) : w.tasks[i].exercise_id = ObjectId(Squat)
    /\ \E g \in goals : g.exercise_id = ObjectId(Squat) /\ g.user_id = ObjectId(session[1])
    /\ \E e \in exercises : e._id = ObjectId(Squat)

(* C6: no two exercises of the catalog have names that are equal ignoring  *)
(* letter case.                                                            *)
C6_NamesUniqueIgnoringCase ==
    \A e1 \in exercises : \A e2 \in exercises :
        LowerStr(e1.name) = LowerStr(e2.name) => e1 = e2

----------------------------------------------------------------------------
(* The forms: one browser sends every mutation request, complete or with   *)
(* one of its required fields left out.                                    *)

Incomplete(form, required) == {[form EXCEPT ![k] = Missing] : k \in required}
OrIncomplete(form, required) == {form} \cup Incomplete(form, required)

AddBase == AddForm(Mon1, Squat, <<"1">>, <<"8">>)
AddRequired == {"workout_date", "exercise_id", "sets", "reps"}

Legs == <<"L","e","g","s">>
DayBase == DayForm(Mon1, Legs, FALSE)
DayRequired == {"edit_workout_date"}

FirstTask == [workout_day_id |-> OidStr(<<"day", 1>>), task_id |-> OidStr(<<"task", 1>>)]
FirstSet == FirstTask @@ [set_id |-> OidStr(<<"set", 1>>)]
TaskRequired == {"workout_day_id", "task_id"}
SetRequired == {"workout_day_id", "task_id", "set_id"}

EditBase == EditForm(FirstTask, Deadlift, <<"1">>, <<"5">>)
EditRequired ==
    {"edit_workout_day_id", "edit_task_id", "edit_exercise_id", "edit_sets", "edit_reps"}

CopyDayBase == [source_workout_id |-> OidStr(<<"day", 1>>), target_date |-> Mon2]
CopyDayRequired == {"source_workout_id", "target_date"}

CopyWeekBase == [current_week_start_date |-> Mon2]
CopyWeekRequired == {"current_week_start_date"}

GoalBase == GoalForm(Squat, Sixty)
GoalRequired == {"exercise_id", "goal_weight"}

DietBase ==
    [date |-> Mon1, food_name |-> <<"O","a","t","s">>, calories |-> <<"3","0","0">>,
     protein_g |-> <<"1","0">>, carbs_g |-> NotSent, fat_g |-> NotSent]
DietRequired == {"date", "food_name"}

LibraryBase == [exercise_name |-> Row, muscle_group |-> Back]
LibraryRequired == {"exercise_name", "muscle_group"}

RenameBase == [edit_exercise_name |-> LowRow, edit_muscle_group |-> Back]
RenameRequired == {"edit_exercise_name", "edit_muscle_group"}

\* The JSON bodies: a toggle also needs is_completed to be a boolean.
ToggleSetBodies ==
    {r @@ [is_completed |-> JBool(TRUE)] : r \in OrIncomplete(FirstSet, SetRequired)}
        \cup {FirstSet @@ [is_completed |-> JNull]}
ToggleSetIncomplete ==
    {j \in ToggleSetBodies : j # FirstSet @@ [is_completed |-> JBool(TRUE)]}

ToggleTaskBodies ==
    {r @@ [is_completed |-> JBool(TRUE)] : r \in OrIncomplete(FirstTask, TaskRequired)}
        \cup {FirstTask @@ [is_completed |-> JNull]}
ToggleTaskIncomplete ==
    {j \in ToggleTaskBodies : j # FirstTask @@ [is_completed |-> JBool(TRUE)]}

DetailsOf(r) == r @@ [weight_kg |-> JStr(<<"5","0">>), actual_reps |-> JStr(<<"5">>)]

FormNext ==
    \/ signup(1, Alice, Alice, Password)
    \/ login(1, Alice, Password)
    \/ \E f \in OrIncomplete(AddBase, AddRequired) : add_exercise_to_day(1, f)
    \/ \E f \in OrIncomplete(DayBase, DayRequired) : edit_workout_day(1, f)
    \/ \E f \in OrIncomplete(EditBase, EditRequired) : edit_exercise(1, f)
    \/ \E f \in OrIncomplete(CopyDayBase, CopyDayRequired) : copy_day(1, f)
    \/ \E f \in OrIncomplete(CopyWeekBase, CopyWeekRequired) : copy_last_week(1, f)
    \/ \E f \in OrIncomplete(GoalBase, GoalRequired) : set_exercise_goal(1, f)
    \/ \E f \in OrIncomplete(DietBase, DietRequired) : add_diet_entry(1, f)
    \/ \E f \in OrIncomplete(LibraryBase, LibraryRequired) : add_custom_exercise(1, f)
    \/ \E f \in OrIncomplete(RenameBase, RenameRequired) :
          edit_exercise_in_library(1, Custom, f)
    \/ \E j \in ToggleSetBodies : toggle_set_completion(1, j)
    \/ \E j \in ToggleTaskBodies : toggle_task_completion(1, j)
    \/ \E j \in OrIncomplete(FirstTask, TaskRequired) : delete_task(1, j)
    \/ \E r \in OrIncomplete(FirstSet, SetRequired) : update_set_details(1, DetailsOf(r))
    \/ \E e \in diet_entries : delete_diet_entry(1, OidStr(e._id))

FormSpec == Init /\ [][FormNext]_vars

\* The request changed no document and was answered by an error notice.
Refused == db' = db /\ (last'.cat = "danger" \/ last'.code = 400)

(* C7: a mutation request that is missing a required field creates,        *)
(* modifies and deletes no document of any collection, and is answered by  *)
(* an error notice: a flash message, or a JSON error with HTTP 400.        *)
C7_IncompleteRequestRefused ==
    [][LoggedIn(1) =>
        /\ \A f \in Incomplete(AddBase, AddRequired) : add_exercise_to_day(1, f) => Refused
        /\ \A f \in Incomplete(DayBase, DayRequired) : edit_workout_day(1, f) => Refused
        /\ \A f \in Incomplete(EditBase, EditRequired) : edit_exercise(1, f) => Refused
        /\ \A f \in Incomplete(CopyDayBase, CopyDayRequired) : copy_day(1, f) => Refused
        /\ \A f \in Incomplete(CopyWeekBase, CopyWeekRequired) :
              copy_last_week(1, f) => Refused
        /\ \A f \in Incomplete(GoalBase, GoalRequired) : set_exercise_goal(1, f) => Refused
        /\ \A f \in Incomplete(DietBase, DietRequired) : add_diet_entry(1, f) => Refused
        /\ \A f \in Incomplete(LibraryBase, LibraryRequired) :
              add_custom_exercise(1, f) => Refused
        /\ \A f \in Incomplete(RenameBase, RenameRequired) :
              edit_exercise_in_library(1, Custom, f) => Refused
        /\ \A j \in ToggleSetIncomplete : toggle_set_completion(1, j) => Refused
        /\ \A j \in ToggleTaskIncomplete : toggle_task_completion(1, j) => Refused
        /\ \A j \in Incomplete(FirstTask, TaskRequired) : delete_task(1, j) => Refused
        /\ \A r \in Incomplete(FirstSet, SetRequired) :
              update_set_details(1, DetailsOf(r)) => Refused]_vars

\* A JSON request with missing data was answered 400 while the store held
\* a day with an open set, a goal, a diet entry and a custom exercise.
C7_Witness ==
    /\ last.code = 400
    /\ \E w \in workout_days : \E i \in 1..Len(w.tasks) :
          w.tasks[i].sets # <<>> /\ ~w.tasks[i].sets[1].completed
    /\ goals # {} /\ diet_entries # {}
    /\ Cardinality(exercises) > Len(default_exercises)

----------------------------------------------------------------------------
(* Signing in and out: two browsers sign up, log in with the right or a    *)
(* wrong password, log out, and send protected requests in any state.      *)

\* The operations behind @login_required: all but signing up, in and out.
Protected(op) == op \notin {"start", "signup", "login", "logout"}

AuthNext ==
    \/ \E c \in 1..2 : signup(c, Browsers[c], Browsers[c], Password)
    \/ \E c \in 1..2 : \E pw \in {Password, <<"n","o">>} : login(c, Browsers[c], pw)
    \/ \E c \in 1..2 : logout(c)
    \/ \E c \in 1..2 : progress_tracker(c)
    \/ \E c \in 1..2 : add_diet_entry(c, DietBase)
    \/ \E e \in diet_entries : delete_diet_entry(1, OidStr(e._id))
    \/ set_exercise_goal(2, GoalBase)

AuthSpec == Init /\ [][AuthNext]_vars

\* The workout, goal, diet and exercise data.
data == <<exercises, workout_days, goals, diet_entries>>

\* The session of a browser carries the identifier of an existing user.
Identified(c) == LoggedIn(c) /\ \E u \in users : OidStr(u._id) = session[c]

(* C9: a protected handler runs, and the workout, goal, diet and exercise  *)
(* data change, only for a request whose session carries the identifier of *)
(* an existing user; a logout leaves the session without identifier, every *)
(* protected request sent without one is redirected to the login page, and *)
(* only a successful login puts an identifier into the session.            *)
C9_LoginGate ==
    [][/\ (Protected(last'.op) /\ last'.served) => Identified(last'.client)
       /\ data' # data => Protected(last'.op) /\ Identified(last'.client)
       /\ \A c \in 1..2 :
             /\ logout(c) => ~LoggedIn(c)'
             /\ (~LoggedIn(c) /\ Protected(last'.op) /\ last'.client = c)
                    => ~last'.served /\ last'.code = 302 /\ data' = data
             /\ (~LoggedIn(c) /\ LoggedIn(c)')
                    => last'.op = "login" /\ last'.cat = "success" /\ last'.client = c]_vars

\* A browser that had logged in and stored a diet entry has logged out, and
\* its protected request was redirected while the other browser is served.
C9_Witness ==
    /\ ~LoggedIn(1) /\ LoggedIn(2)
    /\ Protected(last.op) /\ last.client = 1 /\ ~last.served /\ last.code = 302
    /\ \E e \in diet_entries : \E u \in users : u.email = Alice /\ e.user_id = u._id

----------------------------------------------------------------------------
(* The progress page: the first browser plans days in two weeks and on a   *)
(* date that does not exist, logs weights and repetitions, and both        *)
(* browsers open the progress tracker.                                     *)

Logged == { <<<<"1","0","0">>, <<"5">>>>, <<<<"0">>, <<"5">>>>,
            <<<<"1","0","0">>, <<"2",".","5">>>>, <<<<"x">>, <<"5">>>>,
            <<<<"1","0","0">>, <<"-","1">>>>, <<<<"-","5">>, <<"5">>>>,
            <<<<"2",".","5">>, <<"2">>>> }

ProgressNext ==
    \/ \E c \in 1..2 : signup(c, Browsers[c], Browsers[c], Password)
    \/ \E c \in 1..2 : login(c, Browsers[c], Password)
    \/ \E d \in {Mon1, Sun1, Mon2, NoDay} : \E n \in {<<"1">>, <<"3">>} :
          add_exercise_to_day(1, AddForm(d, Squat, n, <<"8">>))
    \/ add_exercise_to_day(2, AddForm(Mon1, Squat, <<"1">>, <<"8">>))
    \/ \E r \in SetRefs : \E p \in Logged :
          update_set_details(1, r @@ [weight_kg |-> JStr(p[1]), actual_reps |-> JStr(p[2])])
    \/ \E c \in 1..2 : progress_tracker(c)

ProgressSpec == Init /\ [][ProgressNext]_vars

\* What a set is worth when weight and repetitions are both numbers above
\* zero: weight x repetitions, in hundredths.
WorthOfNumbers(s) ==
    IF /\ IsFloatText(s.weight_kg) /\ FloatOf(s.weight_kg) > 0
       /\ IsFloatText(s.actual_reps) /\ FloatOf(s.actual_reps) > 0
    THEN FloatOf(s.weight_kg) * FloatOf(s.actual_reps) ELSE 0

\* The sum of the last components of a set of tuples.
RECURSIVE Total(_)
Total(S) ==
    IF S = {} THEN 0
    ELSE LET x == CHOOSE x \in S : TRUE IN x[Len(x)] + Total(S \ {x})

MonthNo(name) == CHOOSE m \in 1..12 : MonthAbbr[m] = name
Earlier(a, b) ==
    \/ a[3] < b[3]
    \/ a[3] = b[3] /\ MonthNo(a[1]) < MonthNo(b[1])
    \/ a[3] = b[3] /\ a[1] = b[1] /\ a[2] < b[2]

\* The chart last shown has one bucket for each Monday-start week in which
\* the user has a day with tasks, in chronological order, and the bucket
\* of a week holds, unit times, the sum of W over the sets of those days.
ChartIs(W(_), unit) ==
    LET uid == ObjectId(session[last.client])
        v == last.volume_data
        days == {w \in workout_days :
                    w.user_id = uid /\ w.tasks # <<>> /\ IsIsoDate(w.date)}
        InWeek(w, label) ==
            \E m \in (FromIso(w.date) - 6)..FromIso(w.date) :
                Weekday(m) = 0 /\ Strftime(IsoFormat(m)) = label
        worths(label) ==
            UNION {UNION {{<<w._id, i, j, W(w.tasks[i].sets[j])>>
                           : j \in 1..Len(w.tasks[i].sets)} : i \in 1..Len(w.tasks)}
                   : w \in {d \in days : InWeek(d, label)}}
    IN  /\ Len(v.labels) = Len(v.data)
        /\ \A w \in days : \E i \in 1..Len(v.labels) : InWeek(w, v.labels[i])
        /\ \A i \in 1..Len(v.labels) : \E w \in days : InWeek(w, v.labels[i])
        /\ \A i \in 1..Len(v.labels) : \A j \in 1..Len(v.labels) :
              i < j => Earlier(v.labels[i], v.labels[j])
        /\ \A i \in 1..Len(v.labels) : unit * v.data[i] = Total(worths(v.labels[i]))

Shown == last.op = "progress_tracker" /\ last.served

(* C10: the weekly volume of a week is the sum of weight x reps over       *)
(* exactly the sets, of the user's days in that Monday-start week, whose   *)
(* weight and reps are both numeric and strictly positive; the other sets  *)
(* contribute nothing; the buckets are in chronological order.             *)
C10_VolumeOfNumericSets == Shown => ChartIs(WorthOfNumbers, 10)

----------------------------------------------------------------------------
(* The monthly plan: a browser plans a day and opens months of the first,  *)
(* a current and the last year the calendar has.                           *)

Years == {1, 2024, 9999}

MonthNext ==
    \/ signup(1, Alice, Alice, Password)
    \/ login(1, Alice, Password)
    \/ \E d \in {Mon1, Mon2} : add_exercise_to_day(1, AddForm(d, Squat, <<"1">>, <<"8">>))
    \/ \E y \in Years : \E m \in 1..12 : monthly_view(1, y, m)

MonthSpec == Init /\ [][MonthNext]_vars

\* The grid last shown, cell by cell.
Cells(weeks) == [k \in 1..(7 * Len(weeks)) |-> weeks[((k - 1) \div 7) + 1][((k - 1) % 7) + 1]]

\* A grid of 6 weeks of 7 cells, each a day after its predecessor, from the
\* Monday on or before the 1st of the month.
GridOf(year, month, weeks) ==
    LET cells == Cells(weeks)
        first == FromIso(<<year, month, 1>>)
    IN  /\ Len(weeks) = 6
        /\ \A wk \in 1..Len(weeks) : Len(weeks[wk]) = 7
        /\ \A k \in 1..(Len(cells) - 1) :
              IsIsoDate(cells[k + 1]) /\ FromIso(cells[k + 1]) = FromIso(cells[k]) + 1
        /\ IsIsoDate(cells[1]) /\ Weekday(FromIso(cells[1])) = 0
        /\ FromIso(cells[1]) \in (first - 6)..first
        /\ \A d \in 1..DaysInMonth(year, month) :
              \E k \in 1..Len(cells) : cells[k] = <<year, month, d>>

(* C11: for every (year, month) the monthly grid has exactly 6 weeks of 7  *)
(* cells, each cell's date one day after its predecessor's, the first cell *)
(* the Monday on or before the 1st of the month, and so every day of the   *)
(* month is in the grid.                                                   *)
C11_MonthlyGrid ==
    [][\A y \in Years : \A m \in 1..12 :
         (monthly_view(1, y, m) /\ LoggedIn(1)) =>
            /\ last'.code = 200
            /\ GridOf(y, m, last'.context.calendar_weeks)]_vars

----------------------------------------------------------------------------
(* The goal page: the first browser plans two exercises, logs weights,     *)
(* sets a goal, and both browsers open the goal page.                      *)

Weights == {<<"2",".","5">>, <<"-","5">>, <<"x">>}

RecordNext ==
    \/ \E c \in 1..2 : signup(c, Browsers[c], Browsers[c], Password)
    \/ \E c \in 1..2 : login(c, Browsers[c], Password)
    \/ \E d \in {Mon1, Mon2} : \E e \in {Squat, Deadlift} :
          add_exercise_to_day(1, AddForm(d, e, <<"1">>, <<"8">>))
    \/ add_exercise_to_day(2, AddForm(Mon1, Squat, <<"1">>, <<"8">>))
    \/ \E c \in 1..2 : \E r \in SetRefs : \E kg \in Weights :
          update_set_details(c, r @@ [weight_kg |-> JStr(kg), actual_reps |-> JNull])
    \/ \E c \in 1..2 : set_exercise_goal(c, GoalForm(Squat, IF c = 1 THEN Sixty
                                                             ELSE SeventyTwoAndHalf))
    \/ \E c \in 1..2 : goal_setting(c)

RecordSpec == Init /\ [][RecordNext]_vars

\* The weights, in tenths, that parse as numbers among the sets of the
\* user's tasks referring to an exercise, each with the date of its day.
Lifted(uid, exercise) ==
    UNION {UNION {{<<w.date, FloatOf(w.tasks[i].sets[j].weight_kg)>>
                   : j \in {k \in 1..Len(w.tasks[i].sets) :
                               IsFloatText(w.tasks[i].sets[k].weight_kg)}}
                  : i \in {k \in 1..Len(w.tasks) : w.tasks[k].exercise_id = exercise}}
           : w \in {d \in workout_days : d.user_id = uid}}

GoalPageShown == last.op = "goal_setting" /\ last.served

(* C12: for every exercise of the catalog the goal page reports as PR the  *)
(* maximum numeric weight over all sets of the user's tasks referring to   *)
(* the exercise, 0 when there is none; the PR date is the date of a day in *)
(* which a set with that weight was recorded, absent when the PR is 0; the *)
(* goal weight is that of the user's goal record, absent when none exists. *)
C12_PersonalRecords ==
    GoalPageShown =>
        LET uid == ObjectId(session[last.client])
            list == last.goal_tracking_list
        IN  \A e \in exercises :
                /\ Cardinality({i \in 1..Len(list) : list[i].exercise = e}) = 1
                /\ \A i \in 1..Len(list) : list[i].exercise = e =>
                      LET lifted == Lifted(uid, e._id)
                          mine == {g \in goals : g.user_id = uid /\ g.exercise_id = e._id}
                      IN  /\ IF lifted = {} THEN list[i].pr_weight = 0
                             ELSE /\ \E l \in lifted : l[2] = list[i].pr_weight
                                  /\ \A l \in lifted : l[2] <= list[i].pr_weight
                          /\ IF list[i].pr_weight = 0 THEN list[i].pr_date = Missing
                             ELSE \E l \in lifted : l = <<list[i].pr_date, list[i].pr_weight>>
                          /\ IF mine = {} THEN ~list[i].goal_weight.set
                             ELSE /\ list[i].goal_weight.set
                                  /\ \E g \in mine : g.goal_weight_kg = list[i].goal_weight.kg

----------------------------------------------------------------------------
(* The progression chart: the first browser plans an exercise, also twice  *)
(* on one day, logs weights, and both browsers open the progress page.     *)

SeriesNext ==
    \/ \E c \in 1..2 : signup(c, Browsers[c], Browsers[c], Password)
    \/ \E c \in 1..2 : login(c, Browsers[c], Password)
    \/ \E d \in {Mon1, Mon2} : \E e \in {Squat, Deadlift} :
          add_exercise_to_day(1, AddForm(d, e, <<"1">>, <<"8">>))
    \/ add_exercise_to_day(2, AddForm(Mon1, Squat, <<"1">>, <<"8">>))
    \/ \E r \in SetRefs : \E kg \in Weights :
          update_set_details(1, r @@ [weight_kg |-> JStr(kg), actual_reps |-> JNull])
    \/ \E c \in 1..2 : progress_tracker(c)

SeriesSpec == Init /\ [][SeriesNext]_vars

\* The weights, in tenths, that parse as numbers among the sets of the
\* user's tasks with an exercise name on a date.
LiftedOn(uid, name, day) ==
    UNION {UNION {{FloatOf(w.tasks[i].sets[j].weight_kg)
                   : j \in {k \in 1..Len(w.tasks[i].sets) :
                               IsFloatText(w.tasks[i].sets[k].weight_kg)}}
                  : i \in {k \in 1..Len(w.tasks) : w.tasks[k].exercise_name = name}}
           : w \in {x \in workout_days : x.user_id = uid /\ x.date = day}}

(* C13: on the progress page, for each exercise name and each date on      *)
(* which the user has tasks with that name, the progression holds exactly  *)
(* one value for the name and date, and it is the maximum numeric weight   *)
(* over all sets of all the user's tasks with that name on that date.      *)
C13_MaxWeightPerNameAndDate ==
    (last.op = "progress_tracker" /\ last.served) =>
        LET uid == ObjectId(session[last.client])
            progression == last.exercise_progression
        IN  \A w \in {x \in workout_days : x.user_id = uid} :
              \A i \in 1..Len(w.tasks) :
                LET name == w.tasks[i].exercise_name
                    lifted == LiftedOn(uid, name, w.date)
                IN  /\ name \in DOMAIN progression
                    /\ w.date \in DOMAIN progression[name]
                    /\ lifted # {} =>
                          /\ progression[name][w.date] \in lifted
                          /\ \A kg \in lifted : kg <= progression[name][w.date]

----------------------------------------------------------------------------
(* Set details: both browsers plan an exercise, the first removes tasks   *)
(* again, and both send set details for ids a page has shown at some time. *)

DetailBodies ==
    {[workout_day_id |-> OidStr(<<"day", d>>), task_id |-> OidStr(<<"task", t>>),
      set_id |-> OidStr(<<"set", t>>), weight_kg |-> JStr(<<"5","0">>),
      actual_reps |-> reps]
     : d \in 1..2, t \in 1..2, reps \in {JNull, JStr(<<"5">>)}}

DetailsNext ==
    \/ \E c \in 1..2 : signup(c, Browsers[c], Browsers[c], Password)
    \/ \E c \in 1..2 : login(c, Browsers[c], Password)
    \/ \E c \in 1..2 : \E d \in {Mon1, Mon2} :
          add_exercise_to_day(c, AddForm(d, Squat, <<"1">>, <<"8">>))
    \/ \E r \in TaskRefs : delete_task(1, r)
    \/ \E c \in 1..2 : \E j \in DetailBodies : update_set_details(c, j)

DetailsSpec == Init /\ [][DetailsNext]_vars

\* The sets of a collection that a request of a user addresses.
Addressed(coll, uid, j) ==
    UNION {UNION {{w.tasks[i].sets[k] : k \in {n \in 1..Len(w.tasks[i].sets) :
                                          OidStr(w.tasks[i].sets[n]._id) = j.set_id}}
                  : i \in {n \in 1..Len(w.tasks) : OidStr(w.tasks[n]._id) = j.task_id}}
           : w \in {x \in coll : x.user_id = uid /\ OidStr(x._id) = j.workout_day_id}}

(* C14: a request for set details is answered with 404 whenever the day it *)
(* addresses, of the requesting user, has no set with the given task id    *)
(* and set id; it is answered with success only when the addressed set     *)
(* exists and holds the submitted weight and repetitions afterwards.       *)
C14_SetDetailsOnlyForExistingSet ==
    [][\A c \in 1..2 : \A j \in DetailBodies :
         (update_set_details(c, j) /\ LoggedIn(c)) =>
            LET uid == ObjectId(session[c])
            IN  /\ Addressed(workout_days, uid, j) = {} => last'.code = 404
                /\ last'.cat = "success" =>
                      /\ Addressed(workout_days', uid, j) # {}
                      /\ \A st \in Addressed(workout_days', uid, j) :
                            /\ st.weight_kg = j.weight_kg.v
                            /\ j.actual_reps.t # "null" => st.actual_reps = j.actual_reps.v]_vars

----------------------------------------------------------------------------
(* Overlapping targeted updates: two browsers of one user, each with a     *)
(* request in progress on the same day, which has two sets, in one task or *)
(* in two.                                                                 *)

\* Each browser sends its own weight.
TargetedRequests(c) ==
    {<<"toggle_set", r @@ [is_completed |-> JBool(TRUE)]>> : r \in SetRefs}
    \cup {<<"update_set_details",
            r @@ [weight_kg |-> JStr(IF c = 1 THEN <<"5","0">> ELSE <<"6","0">>),
                  actual_reps |-> JNull]>> : r \in SetRefs}
    \cup {<<"toggle_task", r @@ [is_completed |-> JBool(TRUE)]>> : r \in TaskRefs}

TargetNext ==
    \/ signup(1, Alice, Alice, Password)
    \/ \E c \in 1..2 : login(c, Alice, Password)
    \/ \E n \in {<<"1">>, <<"2">>} :
          /\ Cardinality(SetRefs) + IntOf(n) <= 2
          /\ add_exercise_to_day(1, AddForm(Mon1, Squat, n, <<"8">>))
    \/ \E c \in 1..2 : \E q \in TargetedRequests(c) : Receive(c, q[1], q[2])
    \/ \E c \in 1..2 : UpdateOne(c)

TargetSpec == Init /\ [][TargetNext]_vars

\* What a targeted request addresses, and whether the day holds what it sent.
TargetOf(op, j) ==
    IF op = "toggle_task" THEN <<j.workout_day_id, j.task_id>>
    ELSE <<j.workout_day_id, j.task_id, j.set_id>>

Reflected(coll, op, j) ==
    \E w \in coll : \E i \in 1..Len(w.tasks) :
        /\ OidStr(w._id) = j.workout_day_id
        /\ OidStr(w.tasks[i]._id) = j.task_id
        /\ CASE op = "toggle_task" ->
                   "completed" \in DOMAIN w.tasks[i] /\ w.tasks[i].completed = j.is_completed.b
             [] op = "toggle_set" ->
                   \E k \in 1..Len(w.tasks[i].sets) :
                       /\ OidStr(w.tasks[i].sets[k]._id) = j.set_id
                       /\ w.tasks[i].sets[k].completed = j.is_completed.b
             [] op = "update_set_details" ->
                   \E k \in 1..Len(w.tasks[i].sets) :
                       /\ OidStr(w.tasks[i].sets[k]._id) = j.set_id
                       /\ w.tasks[i].sets[k].weight_kg = j.weight_kg.v

\* The latest response is a success of the other browser for a targeted
\* update of the day, and of another set or task than, the request that
\* browser c has in progress.
Overlapping(c) ==
    /\ pending[c].pc = "update_one"
    /\ last.op \in Targeted /\ last.cat = "success" /\ last.client # c
    /\ last.data.workout_day_id = pending[c].data.workout_day_id
    /\ TargetOf(last.op, last.data) # TargetOf(pending[c].op, pending[c].data)

(* C15: when two targeted updates (toggle-set, update-set-details,         *)
(* toggle-task) of different sets or tasks of the same day overlap and     *)
(* both are answered with success, the day holds the values of both once   *)
(* the second has been applied, whichever was received and applied first.  *)
C15_BothUpdatesReflected ==
    [][\A c \in 1..2 :
         (Overlapping(c) /\ UpdateOne(c) /\ last'.cat = "success") =>
            /\ Reflected(workout_days', last.op, last.data)
            /\ Reflected(workout_days', pending[c].op, pending[c].data)]_vars

\* Browser 1's request was received before browser 2's was applied, and is
\* about to be applied to the day that holds browser 2's values.
C15_Witness ==
    /\ Overlapping(1)
    /\ Reflected(workout_days, last.op, last.data)
    /\ \E w \in workout_days :
          /\ OidStr(w._id) = pending[1].data.workout_day_id
          /\ Len(w.tasks) = 1 /\ Len(w.tasks[1].sets) = 2
    /\ pending[1].op = "update_set_details" /\ last.op = "update_set_details"

----------------------------------------------------------------------------
(* Copying a day, seen from the planner's requests (DaySpec).              *)

\* What a day plans: its title, notes and rest-day flag, and for each task
\* in order the exercise, the target repetitions and, for each set in
\* order, the logged weight and repetitions.
Plan(w) ==
    [title |-> w.title, notes |-> w.notes, is_rest_day |-> w.is_rest_day,
     tasks |-> [i \in 1..Len(w.tasks) |->
                  [exercise_id |-> w.tasks[i].exercise_id,
                   target_reps |-> w.tasks[i].target_reps,
                   sets |-> [j \in 1..Len(w.tasks[i].sets) |->
                               [weight_kg |-> w.tasks[i].sets[j].weight_kg,
                                actual_reps |-> w.tasks[i].sets[j].actual_reps]]]]]

Elsewhere(coll, uid, date_str) == {w \in coll : w.user_id # uid \/ w.date # date_str}

----------------------------------------------------------------------------
(* The diet plan: both browsers log foods for a date, the first also the   *)
(* same food again, with counts that are numbers or not, and deletes.      *)

Oats == <<"O","a","t","s">>

DietForms(c) ==
    IF c = 1
    THEN {[date |-> d, food_name |-> food, calories |-> kcal,
           protein_g |-> <<"1","0">>, carbs_g |-> NotSent, fat_g |-> NotSent]
          : d \in {Mon1, Missing}, food \in {Oats, Missing},
            kcal \in {<<"3","0","0">>, <<"x">>}}
    ELSE {[date |-> Mon1, food_name |-> Oats, calories |-> NotSent,
           protein_g |-> NotSent, carbs_g |-> NotSent, fat_g |-> NotSent]}

DietNext ==
    \/ \E c \in 1..2 : signup(c, Browsers[c], Browsers[c], Password)
    \/ \E c \in 1..2 : login(c, Browsers[c], Password)
    \/ \E c \in 1..2 : \E f \in DietForms(c) : add_diet_entry(c, f)
    \/ \E e \in diet_entries : delete_diet_entry(1, OidStr(e._id))

DietSpec == Init /\ [][DietNext]_vars

(* C17: there is at most one diet entry for a user, a date and a food      *)
(* name.                                                                   *)
C17_OneEntryPerUserDateFood ==
    \A e1 \in diet_entries : \A e2 \in diet_entries :
        (e1.user_id = e2.user_id /\ e1.date = e2.date /\ e1.food_name = e2.food_name)
            => e1 = e2

\* A form add_diet_entry accepts: a date, a food name, and counts that are
\* integers where they are sent.
Accepted(f) ==
    /\ f.date # Missing /\ f.food_name # Missing
    /\ \A k \in {"calories", "protein_g", "carbs_g", "fat_g"} :
          f[k] = NotSent \/ IsIntText(f[k])

(* C17, amended: diet entries are identified by their identifier and not   *)
(* by user, date and food name.  Every add-diet-entry request of a user    *)
(* with a date, a food name and integer counts is answered with success    *)
(* and inserts exactly one entry, under an identifier no entry has, with   *)
(* the user, the date and the food name, also when the user already has an *)
(* entry of that food on that date; every other request inserts nothing.   *)
C17_EveryAddInsertsAnEntry ==
    [][\A c \in 1..2 : \A f \in DietForms(c) :
         (add_diet_entry(c, f) /\ LoggedIn(c)) =>
            IF Accepted(f)
            THEN /\ last'.cat = "success"
                 /\ \E e \in diet_entries' :
                       /\ \A x \in diet_entries : x._id # e._id
                       /\ diet_entries' = diet_entries \cup {e}
                       /\ e.user_id = ObjectId(session[c])
                       /\ e.date = f.date /\ e.food_name = f.food_name
            ELSE /\ last'.cat = "danger"
                 /\ diet_entries' = diet_entries]_vars

\* The first user has logged one food twice for one date.
C17_Witness ==
    /\ last.op = "add_diet_entry" /\ last.cat = "success" /\ last.client = 1
    /\ \E e1 \in diet_entries : \E e2 \in diet_entries :
          /\ e1 # e2 /\ e1.user_id = ObjectId(session[1]) /\ e2.user_id = e1.user_id
          /\ e1.date = e2.date /\ e1.food_name = e2.food_name

----------------------------------------------------------------------------
(* Overlapping requests on a week: two browsers of one user.  The user has *)
(* planned Monday of the week before; then the week is copied, an exercise *)
(* is added to the week's Monday, a day is copied onto it and its title is *)
(* edited, each request running between the database calls of the others.  *)

WeekRaceNext ==
    \/ signup(1, Alice, Alice, Password)
    \/ \E c \in 1..2 : login(c, Alice, Password)
    \/ /\ workout_days = {}
       /\ add_exercise_to_day(1, AddForm(Mon1, Squat, <<"1">>, <<"8">>))
    \/ \E c \in 1..2 : copy_last_week_find(c, [current_week_start_date |-> Mon2])
    \/ \E c \in 1..2 : copy_last_week_delete(c)
    \/ \E c \in 1..2 : copy_last_week_insert(c)
    \/ \E c \in 1..2 : add_exercise_find(c, AddForm(Mon2, Squat, <<"1">>, <<"8">>))
    \/ \E c \in 1..2 : add_exercise_upsert(c)
    \/ \E c \in 1..2 : add_exercise_push(c)
    \/ \E c \in 1..2 : \E src \in DayIds :
          copy_day_find(c, [source_workout_id |-> src, target_date |-> Mon2])
    \/ \E c \in 1..2 : copy_day_replace(c)
    \/ \E c \in 1..2 : edit_workout_day(c, DayForm(Mon2, <<"L","e","g","s">>, FALSE))

WeekRaceSpec == Init /\ [][WeekRaceNext]_vars

(* C18: there is at most one day per user and date also when the delete    *)
(* step and the later insert step of copy-last-week run with another       *)
(* request of the same user between them (edit-workout-day, add-exercise,  *)
(* copy-day or a second copy-last-week) that upserts or inserts a day of   *)
(* the target week.                                                        *)
C18_OneDayPerUserAndDateOverlapping ==
    \A w1 \in workout_days : \A w2 \in workout_days :
        (w1.user_id = w2.user_id /\ w1.date = w2.date) => w1._id = w2._id

(* C19: whenever add-exercise reports 'Exercise added successfully!' the   *)
(* user's day at the submitted date afterwards contains the new task, also *)
(* when a copy-last-week or a copy-day runs between the upsert step and    *)
(* the push step of the add-exercise.                                      *)
C19_ReportedTaskIsInTheDay ==
    [][\A c \in 1..2 :
         (add_exercise_push(c) /\ last'.cat = "success") =>
            \E w \in workout_days' :
                /\ w.user_id = pending[c].user
                /\ w.date = pending[c].form.workout_date
                /\ \E i \in 1..Len(w.tasks) :
                      /\ w.tasks[i]._id = <<"task", oids["task"] + 1>>
                      /\ w.tasks[i].exercise_id = ObjectId(pending[c].form.exercise_id)]_vars

----------------------------------------------------------------------------
(* Overlapping requests on the catalog: one browser deletes an exercise    *)
(* of the library while the other plans with it, edits a task to it and    *)
(* copies days.                                                            *)

CatalogRaceNext ==
    \/ \E c \in 1..2 : signup(c, Browsers[c], Browsers[c], Password)
    \/ \E c \in 1..2 : login(c, Browsers[c], Password)
    \/ \E e \in {Squat, Deadlift} : delete_exercise_check(1, e)
    \/ delete_exercise_delete(1)
    \/ \E e \in {Squat, Deadlift} :
          add_exercise_find(2, AddForm(Mon1, e, <<"1">>, <<"8">>))
    \/ add_exercise_upsert(2)
    \/ add_exercise_push(2)
    \/ \E r \in TaskRefs : edit_exercise_find(2, EditForm(r, Deadlift, <<"1">>, <<"5">>))
    \/ edit_exercise_update(2)
    \/ \E src \in DayIds : copy_day_find(2, [source_workout_id |-> src, target_date |-> Mon2])
    \/ copy_day_replace(2)
    \/ copy_last_week_find(2, [current_week_start_date |-> Mon2])
    \/ copy_last_week_delete(2)
    \/ copy_last_week_insert(2)

CatalogRaceSpec == Init /\ [][CatalogRaceNext]_vars

(* C20: in every reachable state every task of every day refers to an      *)
(* exercise of the catalog, also when the in-use check and the delete step *)
(* of delete-exercise run with an add-exercise, an edit-exercise, a        *)
(* copy-day or a copy-last-week between them.                              *)
C20_TasksReferToTheCatalog ==
    \A w \in workout_days : \A i \in 1..Len(w.tasks) :
        \E e \in exercises : e._id = w.tasks[i].exercise_id

----------------------------------------------------------------------------
(* Editing a day: both browsers plan an exercise on a Monday or a Sunday,  *)
(* and the first edits the title, the notes and the rest-day flag of days  *)
(* it has and of days it has not.                                          *)

Easy == <<"E","a","s","y">>

DayForms ==
    {[DayForm(d, t, b) EXCEPT !.day_notes = n]
     : d \in {Mon1, Sun1}, t \in {Legs, Missing}, b \in BOOLEAN, n \in {Easy, Missing}}

EditDayNext ==
    \/ \E c \in 1..2 : signup(c, Browsers[c], Browsers[c], Password)
    \/ \E c \in 1..2 : login(c, Browsers[c], Password)
    \/ \E c \in 1..2 : \E d \in {Mon1, Sun1} :
          add_exercise_to_day(c, AddForm(d, Squat, <<"1">>, <<"8">>))
    \/ \E f \in DayForms : edit_workout_day(1, f)
    \/ edit_workout_day(1, DayForm(Missing, Legs, FALSE))

EditDaySpec == Init /\ [][EditDayNext]_vars

(* C21: an edit-workout-day request with a valid date for which the user   *)
(* has no day reports success and leaves exactly one day of the user at    *)
(* the date, with no tasks and with the submitted rest-day flag and notes; *)
(* when the user has a day at the date, its task list is unchanged, and    *)
(* its title is unchanged if the date is a Sunday or if the day is marked  *)
(* as rest day with an empty title.                                        *)
C21_EditWorkoutDay ==
    [][\A f \in DayForms :
         (edit_workout_day(1, f) /\ LoggedIn(1)) =>
            LET uid == ObjectId(session[1])
                before == DaysOf(workout_days, uid, f.edit_workout_date)
                after == DaysOf(workout_days', uid, f.edit_workout_date)
            IN  IF before = {}
                THEN /\ last'.cat = "success"
                     /\ Cardinality(after) = 1
                     /\ \A w \in after : /\ w.tasks = <<>>
                                          /\ w.is_rest_day = f.is_rest_day
                                          /\ w.notes = f.day_notes
                ELSE \A w \in before : \E w2 \in after :
                        /\ w2._id = w._id
                        /\ w2.tasks = w.tasks
                        /\ (Weekday(FromIso(f.edit_workout_date)) = 6
                               \/ (f.is_rest_day /\ f.day_title = Missing))
                              => w2.title = w.title]_vars

----------------------------------------------------------------------------
(* Editing a task: both browsers plan an exercise, the first logs a weight *)
(* and completes a set, renames an exercise of the library, and edits the  *)
(* tasks the pages show to that exercise with a new number of sets.        *)

SetCounts == {<<"0">>, <<"2">>}

EditTaskForms == {EditForm(r, Deadlift, n, <<"5">>) : r \in TaskRefs, n \in SetCounts}

EditTaskNext ==
    \/ \E c \in 1..2 : signup(c, Browsers[c], Browsers[c], Password)
    \/ \E c \in 1..2 : login(c, Browsers[c], Password)
    \/ \E c \in 1..2 : add_exercise_to_day(c, AddForm(Mon1, Squat, <<"1">>, <<"8">>))
    \/ \E r \in SetRefs :
          update_set_details(1, r @@ [weight_kg |-> JStr(<<"5","0">>), actual_reps |-> JNull])
    \/ \E r \in SetRefs : toggle_set_completion(1, r @@ [is_completed |-> JBool(TRUE)])
    \/ edit_exercise_in_library(1, Deadlift, RenameBase)
    \/ \E f \in EditTaskForms : edit_exercise(1, f)

EditTaskSpec == Init /\ [][EditTaskNext]_vars

AllSetOids(coll) == UNION {SetOids(w) : w \in coll}

\* The task t2 is the task t edited by the form f, given the catalog and
\* the set identifiers in use before.
Edited(t, t2, f, exs, used) ==
    /\ t2._id = t._id
    /\ Len(t2.sets) = IntOf(f.edit_sets)
    /\ \A j \in 1..Len(t2.sets) :
          /\ t2.sets[j].set_number = j
          /\ ~t2.sets[j].completed
          /\ t2.sets[j].weight_kg = Missing /\ t2.sets[j].actual_reps = Missing
          /\ t2.sets[j]._id \notin used
          /\ \A k \in 1..Len(t2.sets) : t2.sets[k]._id = t2.sets[j]._id => k = j
    /\ t2.exercise_id = ObjectId(f.edit_exercise_id)
    /\ \E e \in exs : e._id = t2.exercise_id /\ e.name = t2.exercise_name

(* C22: a successful edit-exercise on a task T of a day of the user with   *)
(* set count n leaves T with exactly n sets numbered 1..n, each            *)
(* uncompleted, with empty weight and repetitions and an identifier not    *)
(* used before, and with the submitted exercise reference and the current  *)
(* catalog name of that exercise; the identifier of T, every other task of *)
(* the day and every other day are unchanged.                              *)
C22_EditExerciseFrame ==
    [][\A f \in EditTaskForms :
         (edit_exercise(1, f) /\ last'.cat = "success") =>
            \E w \in Matched(workout_days, ObjectId(session[1]), f.edit_workout_day_id) :
              \E w2 \in workout_days' :
                /\ workout_days' \ {w2} = workout_days \ {w}
                /\ [w2 EXCEPT !.tasks = w.tasks] = w
                /\ Len(w2.tasks) = Len(w.tasks)
                /\ \E i \in 1..Len(w.tasks) : OidStr(w.tasks[i]._id) = f.edit_task_id
                /\ \A i \in 1..Len(w.tasks) :
                      IF OidStr(w.tasks[i]._id) = f.edit_task_id
                      THEN Edited(w.tasks[i], w2.tasks[i], f, exercises,
                                  AllSetOids(workout_days))
                      ELSE w2.tasks[i] = w.tasks[i]]_vars

\* The first user's task, planned with one set, was edited to the renamed
\* exercise with two sets.
C22_Witness ==
    /\ last.op = "edit_exercise" /\ last.cat = "success"
    /\ \E w \in workout_days :
          /\ w.user_id = ObjectId(session[1])
          /\ w.tasks # <<>>
          /\ w.tasks[1].exercise_id = ObjectId(Deadlift)
          /\ w.tasks[1].exercise_name = LowRow
          /\ Len(w.tasks[1].sets) = 2

----------------------------------------------------------------------------
(* Ownership: the second browser's user plans a day, sets a goal and logs  *)
(* a food; the first browser's user plans a day and sends the requests     *)
(* that write days, goals or diet entries, also with the identifiers of    *)
(* the other user's day, task, set and diet entry.                         *)

OwnerNext ==
    \/ \E c \in 1..2 : signup(c, Browsers[c], Browsers[c], Password)
    \/ \E c \in 1..2 : login(c, Browsers[c], Password)
    \/ \E c \in 1..2 : add_exercise_to_day(c, AddForm(Mon1, Squat, <<"1">>, <<"8">>))
    \/ set_exercise_goal(2, GoalForm(Deadlift, Sixty))
    \/ add_diet_entry(2, DietBase)
    \/ \E r \in SetRefs : toggle_set_completion(1, r @@ [is_completed |-> JBool(TRUE)])
    \/ \E r \in TaskRefs : toggle_task_completion(1, r @@ [is_completed |-> JBool(TRUE)])
    \/ \E r \in TaskRefs : delete_task(1, r)
    \/ \E r \in TaskRefs : edit_exercise(1, EditForm(r, Deadlift, <<"0">>, <<"5">>))
    \/ edit_workout_day(1, DayBase)
    \/ \E src \in DayIds : copy_day(1, [source_workout_id |-> src, target_date |-> Mon1])
    \/ copy_last_week(1, CopyWeekBase)
    \/ \E e \in diet_entries : delete_diet_entry(1, OidStr(e._id))
    \/ edit_exercise_in_library(1, Deadlift, RenameBase)
    \/ delete_exercise_from_library(1, Deadlift)

OwnerSpec == Init /\ [][OwnerNext]_vars

\* The days, goals and diet entries a user owns.
OwnedBy(uid, days, gls, diet) ==
    <<{w \in days : w.user_id = uid}, {g \in gls : g.user_id = uid},
      {e \in diet : e.user_id = uid}>>

(* C23: a request performed by a user never creates, modifies or deletes a *)
(* day, a goal or a diet entry owned by another user, whatever the         *)
(* operation, the deletion of an exercise of the library included.         *)
C23_OnlyTheOwnersData ==
    [][\A u \in users :
         (last'.client \in 1..2 /\ session[last'.client] # OidStr(u._id)) =>
            OwnedBy(u._id, workout_days', goals', diet_entries')
              = OwnedBy(u._id, workout_days, goals, diet_entries)]_vars

----------------------------------------------------------------------------
(* The dashboard: a browser plans a day and opens the weeks of the months  *)
(* of the first, a current and the last year the calendar has.             *)

Today == <<2024, 3, 1>>
WeekIndexes == 1..6

DashNext ==
    \/ signup(1, Alice, Alice, Password)
    \/ login(1, Alice, Password)
    \/ add_exercise_to_day(1, AddForm(Mon1, Squat, <<"1">>, <<"8">>))
    \/ dashboard(1, Today, NotSent, NotSent, NotSent)
    \/ \E y \in Years : \E m \in 1..12 : \E k \in WeekIndexes :
          dashboard(1, Today, Str(y), Str(m), Str(k))

DashSpec == Init /\ [][DashNext]_vars

\* The Mondays of the Monday-to-Sunday weeks that have a day of the month.
WeeksOfMonth(y, m) ==
    {FromIso(<<y, m, d>>) - Weekday(FromIso(<<y, m, d>>)) : d \in 1..DaysInMonth(y, m)}

\* The k-th week of the month, as the dashboard must select it.
SelectedWeek(y, m, k, context) ==
    LET first == FromIso(<<y, m, 1>>)
        monday == CHOOSE o \in (first - 6)..first : Weekday(o) = 0
    IN  /\ IsIsoDate(context.start_of_week)
        /\ FromIso(context.start_of_week) = monday + 7 * (k - 1)
        /\ IsIsoDate(context.end_of_week)
        /\ FromIso(context.end_of_week) = FromIso(context.start_of_week) + 6
        /\ \E d \in 1..DaysInMonth(y, m) :
              InRange(<<y, m, d>>, context.start_of_week, context.end_of_week)

(* C24: for every (year, month) the dashboard's num_weeks_in_month is the  *)
(* number of Monday-to-Sunday weeks that have a day of the month, and for  *)
(* every week index k of 1..num_weeks_in_month the selected week starts on *)
(* the Monday on or before the 1st plus 7*(k-1) days, spans 7 days and has *)
(* a day of the month.                                                     *)
C24_WeeksOfTheMonth ==
    [][\A y \in Years : \A m \in 1..12 : \A k \in 1..Cardinality(WeeksOfMonth(y, m)) :
         (dashboard(1, Today, Str(y), Str(m), Str(k)) /\ LoggedIn(1)) =>
            /\ last'.code = 200
            /\ last'.context.num_weeks_in_month = Cardinality(WeeksOfMonth(y, m))
            /\ SelectedWeek(y, m, k, last'.context)]_vars

----------------------------------------------------------------------------
(* The command-line weekly planner, started without a planner file: weeks  *)
(* are added, days are edited and weeks are viewed, with the week and the  *)
(* day typed in lower case, in capitals, or wrongly.                       *)

WeekInputs == {<<"w","e","e","k","_","1">>, <<"W","e","e","k"," ","2">>, <<"w","e","e","k","_","9">>}
DayInputs == {<<"s","u","n","d","a","y">>, <<"S","U","N","D","A","Y">>, <<"m","o","n","d","a","y">>, <<"T","u","e","s","d","a","y">>, <<"f","u","n","d","a","y">>}
ExerciseInputs == {<<>>, <<" "," ">>, <<"s","q","u","a","t",","," ","r","o","w">>}

PlannerNext ==
    \/ \E w \in WeekInputs : \E d \in DayInputs : \E e \in ExerciseInputs :
          add_edit_workout(w, d, e)
    \/ add_new_week
    \/ \E w \in WeekInputs : view_planner(w)

PlannerSpec == Init /\ [][PlannerNext]_vars

\* Every week's Sunday entry is the text "Rest Day".
SundayRests ==
    \A k \in DOMAIN planner_data :
        planner_data[k][Sunday].t = "str" /\ planner_data[k][Sunday].v = RestDay.v

\* The numbers of the planner's weeks.
WeekNumbers(planner) == {n \in 1..(MaxWeek + 1) : WeekKey(n) \in DOMAIN planner}

(* C25: in the command-line planner started from get_default_week, after   *)
(* any add/edit-day and add-new-week operations every week's Sunday entry  *)
(* is still "Rest Day", and add-new-week creates week number max+1 and     *)
(* changes no existing week.                                               *)
C25_SundayRestsAndWeeksAreKept ==
    /\ []SundayRests
    /\ [][add_new_week =>
            LET n == (CHOOSE x \in WeekNumbers(planner_data) :
                         \A m \in WeekNumbers(planner_data) : m <= x) + 1
            IN  /\ WeekKey(n) \notin DOMAIN planner_data
                /\ DOMAIN planner_data' = DOMAIN planner_data \cup {WeekKey(n)}
                /\ \A k \in DOMAIN planner_data : planner_data'[k] = planner_data[k]]_vars

\* A Sunday edit was just refused in a planner with a second week and an
\* edited Monday.
C25_Witness ==
    /\ printed = "Sunday is a designated rest day and cannot be edited."
    /\ WeekKey(2) \in DOMAIN planner_data
    /\ planner_data[WeekKey(1)][DAYS[1]].v # <<>>

====
